---- MODULE Spec2Model ----
(***************************************************************************)
(* Model of the face-recognition access kiosk (reconhecimento_niveis).     *)
(*                                                                         *)
(*   Spec       the live recognition session, reconhecer_faces_webcam of   *)
(*              app.py: one step per frame read, per detected box, per     *)
(*              end of frame, per tick of the countdown, and the grant.    *)
(*   SpecAdmin  the administration workflows of utils_admin.py on the      *)
(*              tables of Usuarios_Cadastrados, the photo corpus and the   *)
(*              model files, with training at start-up of app.py.          *)
(*   SpecPainel the workflows of document_viewer.py (the panel of the      *)
(*              Nivel 3 viewer), admin_app.py and cadastro_app.py, which   *)
(*              keep their tables beside the sources.                      *)
(*                                                                         *)
(* Python's None is the string "None"; a dict is a sequence of entries in  *)
(* insertion order (the order json.load / json.dump preserve).             *)
(***************************************************************************)
EXTENDS Integers, Sequences, FiniteSets, TLC

\* ------------------------------------------------------------------ bounds
\* frames one recognition session may read
MaxFrames == 4
\* boxes the detector may return for one frame
MaxCaixas == 2

\* ------------------------------------------------- constants of app.py
LIMITE_CONFIANCA == 50
MIN_TAMANHO_ROSTO == 80
MAX_TENTATIVAS_RECONHECIMENTO == 3
\* the freeze of the screen before the grant (2 s) and one waitKey(100)
DURACAO_CONGELAMENTO_MS == 2000
PASSO_ESPERA_MS == 100

\* None, for the variables that hold text
None == "None"
\* a CPF is the sequence of its characters; the empty one stands for "no
\* CPF" (None and "" are both false in the tests `if cpf_encontrado`)
SemCpf == << >>
\* an unbound local
SemValor == << >>

\* --------------------------------------------- the world of a session
CPF_A == << "1", "1", "1", "1", "1", "1", "1", "1", "1", "1", "1" >>
CPF_B == << "2", "2", "2", "2", "2", "2", "2", "2", "2", "2", "2" >>
CPF_U == << "3", "3", "3", "3", "3", "3", "3", "3", "3", "3", "3" >>
CPFs == {CPF_A, CPF_B, CPF_U}

Niveis == <<"Nivel 1", "Nivel 2", "Nivel 3">>

\* identity table userData.json: cpf -> {"nome", "id"}
TabelaUsuarios ==
    << [cpf |-> CPF_A, nome |-> "Ana",   id |-> 1],
       [cpf |-> CPF_B, nome |-> "Bruno", id |-> 2],
       [cpf |-> CPF_U, nome |-> "Ugo",   id |-> 3] >>

\* tier tables validation.json: nivel -> {"pessoas": [...]}.  CPF_U is in no
\* list (enrolled, not authorized); in the second table CPF_A is in two lists.
TabelasValidacao ==
    { << [nivel |-> "Nivel 1", pessoas |-> <<CPF_A>>],
         [nivel |-> "Nivel 3", pessoas |-> <<CPF_B>>] >>,
      << [nivel |-> "Nivel 2", pessoas |-> <<CPF_A>>],
         [nivel |-> "Nivel 1", pessoas |-> <<CPF_A, CPF_B>>] >> }

\* label orders of the loaded model (identity tokens; a token is a number
\* here, the n-th uuid generated); token 4 is one no record carries
OrdensDeRotulos ==
    { << 1, 2, 3, 4 >>,
      << 4, 3, 1, 2 >> }

\* what predict may return: the label (-1 is the classifier's "no match")
\* and the distance, around the threshold
Rotulos == -1 .. 4
Confiancas == {LIMITE_CONFIANCA - 1, LIMITE_CONFIANCA, LIMITE_CONFIANCA + 1}
\* side of a detected (square) box, around the minimum size
Lados == {MIN_TAMANHO_ROSTO - 1, MIN_TAMANHO_ROSTO}

\* what the camera may show while the screen is frozen
CenasIguais == {"mesma_identidade"}
CenasDiferentes == {"sem_rosto", "rosto_desconhecido", "outra_identidade"}

\* nothing recorded of the operator's input
SemEntrada ==
    [op |-> "nenhuma", nome |-> "", cpf |-> << >>, nivel |-> << >>,
     resposta |-> FALSE]

\* no build of the training set made yet
SemTreino ==
    [feito |-> FALSE, nulo |-> TRUE, faces |-> << >>, ids |-> << >>,
     ids_treinamento |-> << >>]

VARIABLES
    \* --- reconhecer_faces_webcam: arguments
    ids_treinamento, dados_validacao, dados_usuario,
    \* --- reconhecer_faces_webcam: position and capture device
    pc, captura_de_video, liberacoes, retornos, motivo,
    \* --- reconhecer_faces_webcam: decision state
    acesso_concedido_tempo, tentativas_reconhecimento, ultimo_rosto_reconhecido,
    \* --- reconhecer_faces_webcam: loop locals
    frames_lidos, caixas_restantes, predicao, nivel,
    \* --- the freeze and the grant
    decorrido, cena, documentos_abertos, nivel_concedido,
    \* --- observation of the frames fed so far (for the debounce property)
    frame_id, seq_id, seq_n,
    \* --- persisted state: the tables of Usuarios_Cadastrados (utils_admin,
    \*     app), the tables of the base directory (document_viewer, admin_app,
    \*     cadastro_app), the photo corpus, the model and its sidecar
    arq_usuario, arq_validacao, base_usuario, base_validacao,
    faces, modelo_existe, mapa_existe, uuids,
    \* --- the administration workflow run last, and how it ended
    ultima_op,
    \* --- what the operator entered in the workflow run last (recorded
    \*     only by the specifications that state properties of the input)
    entrada,
    \* --- training: the photos of each directory in which a face is found,
    \*     the label order the sidecar holds, the label order the model file
    \*     was trained with, what the last build of the training set returned
    usaveis, mapa_ids, modelo_ordem, treino,
    \* --- a function applied on its own: its arguments, what it returned
    chamada, retorno,
    \* --- a capture session (tirar_e_salvar_fotos): the module it belongs
    \*     to, its position, its capture device, its counter fotos_tiradas, the files it
    \*     wrote, the feedback of the last request, the value it returned
    modulo_captura, pc_captura, captura, fotos_na_sessao, fotos_gravadas,
    aviso, devolvido,
    \* --- why the capture loop was left
    saida_captura

vars_rec == << ids_treinamento, dados_validacao, dados_usuario,
               pc, captura_de_video, liberacoes, retornos, motivo,
               acesso_concedido_tempo, tentativas_reconhecimento,
               ultimo_rosto_reconhecido,
               frames_lidos, caixas_restantes, predicao,
               nivel, decorrido, cena, documentos_abertos, nivel_concedido,
               frame_id, seq_id, seq_n >>

vars_adm == << arq_usuario, arq_validacao, base_usuario, base_validacao,
               faces, modelo_existe, mapa_existe, uuids, ultima_op,
               entrada >>

vars_treino == << usaveis, mapa_ids, modelo_ordem, treino >>

vars_fn == << chamada, retorno >>

vars_captura == << modulo_captura, pc_captura, captura, fotos_na_sessao,
                  fotos_gravadas, aviso, devolvido, saida_captura >>

vars == << vars_rec, vars_adm, vars_treino, vars_fn, vars_captura >>

\* no function applied on its own
SemChamada ==
    /\ chamada = [fn |-> "nenhuma"]
    /\ retorno = [fn |-> "nenhuma"]

\* no capture session started
SemCaptura ==
    /\ modulo_captura = "None"
    /\ pc_captura = "fora"
    /\ captura = "fechada"
    /\ fotos_na_sessao = 0
    /\ fotos_gravadas = 0
    /\ aviso = "None"
    /\ devolvido = -1
    /\ saida_captura = "None"

\* ----------------------------------------------------------- pure helpers

\* Python list indexing: a negative index counts from the end
Indexar(lista, i) ==
    IF i >= 0 THEN lista[i + 1] ELSE lista[Len(lista) + i + 1]

\* next((cpf for cpf, data in dados_usuario.items() if data['id'] == id), None)
CpfDoId(du, id) ==
    IF \E i \in 1..Len(du) : du[i].id = id
    THEN du[CHOOSE i \in 1..Len(du) :
                /\ du[i].id = id
                /\ \A j \in 1..(i - 1) : du[j].id # id].cpf
    ELSE SemCpf

Contem(lista, x) == \E i \in 1..Len(lista) : lista[i] = x

\* obter_nivel_e_status: the first tier, in the table's order, listing cpf
obter_nivel_e_status(cpf, dv) ==
    IF \E i \in 1..Len(dv) : Contem(dv[i].pessoas, cpf)
    THEN << dv[CHOOSE i \in 1..Len(dv) :
                  /\ Contem(dv[i].pessoas, cpf)
                  /\ \A j \in 1..(i - 1) : ~Contem(dv[j].pessoas, cpf)].nivel,
            "Autorizado" >>
    ELSE << "Nivel Desconhecido", "Nao Autorizado" >>

\* the test of line 317: confianca < LIMITE_CONFIANCA and rotulo_id < len(ids)
AceitoFrouxo(rotulo, conf, ids) ==
    conf <= LIMITE_CONFIANCA /\ rotulo < Len(ids)

Aceito(rotulo, conf, ids) ==
    conf < LIMITE_CONFIANCA /\ rotulo < Len(ids)

\* the test of line 348
ConcedeSemStatus(status, tentativas) ==
    tentativas >= MAX_TENTATIVAS_RECONHECIMENTO

Concede(status, tentativas) ==
    status = "Autorizado" /\ tentativas >= MAX_TENTATIVAS_RECONHECIMENTO

\* ------------------------------------------- reconhecer_faces_webcam

InitRec ==
    /\ ids_treinamento \in OrdensDeRotulos
    /\ dados_validacao \in TabelasValidacao
    /\ dados_usuario = TabelaUsuarios
    /\ pc = "inicio"
    /\ captura_de_video = "fechada"
    /\ liberacoes = 0
    /\ retornos = 0
    /\ motivo = None
    /\ acesso_concedido_tempo = None
    /\ tentativas_reconhecimento = 0
    /\ ultimo_rosto_reconhecido = SemCpf
    /\ frames_lidos = 0
    /\ caixas_restantes = 0
    /\ predicao = SemValor
    /\ nivel = None
    /\ decorrido = 0
    /\ cena = None
    /\ documentos_abertos = 0
    /\ nivel_concedido = None
    /\ frame_id = << "vazio" >>
    /\ seq_id = SemCpf
    /\ seq_n = 0

\* lines 272-282: open the camera; without a camera the function returns
AbrirCamera(ok) ==
    /\ pc = "inicio"
    /\ IF ok
       THEN /\ captura_de_video' = "aberta"
            /\ pc' = "loop"
            /\ UNCHANGED << retornos, motivo >>
       ELSE /\ captura_de_video' = "fechada"
            /\ pc' = "fim"
            /\ retornos' = retornos + 1
            /\ motivo' = "sem_camera"
    /\ UNCHANGED << ids_treinamento, dados_validacao, dados_usuario, liberacoes,
                    acesso_concedido_tempo, tentativas_reconhecimento,
                    ultimo_rosto_reconhecido, frames_lidos, caixas_restantes,
                    predicao, nivel, decorrido, cena,
                    documentos_abertos, nivel_concedido, frame_id, seq_id, seq_n,
                    vars_adm, vars_treino, vars_fn,
                    vars_captura >>

\* lines 398-400 after a break: release, destroyAllWindows, sys.exit
SairSemLiberar(causa) ==
    /\ pc' = "fim"
    /\ motivo' = causa
    /\ retornos' = retornos + 1
    /\ UNCHANGED << captura_de_video, liberacoes >>

Sair(causa) ==
    /\ pc' = "fim"
    /\ motivo' = causa
    /\ retornos' = retornos + 1
    /\ captura_de_video' = "liberada"
    /\ liberacoes' = liberacoes + 1

\* lines 286-287: read() fails
FalhaLeitura ==
    /\ pc = "loop"
    /\ Sair("falha_leitura")
    /\ UNCHANGED << ids_treinamento, dados_validacao, dados_usuario,
                    acesso_concedido_tempo, tentativas_reconhecimento,
                    ultimo_rosto_reconhecido, frames_lidos, caixas_restantes,
                    predicao, nivel, decorrido, cena,
                    documentos_abertos, nivel_concedido, frame_id, seq_id, seq_n,
                    vars_adm, vars_treino, vars_fn,
                    vars_captura >>

\* a frame is read and nothing is reset
LerFrameSemReset(n) ==
    /\ pc = "loop"
    /\ frames_lidos < MaxFrames
    /\ frames_lidos' = frames_lidos + 1
    /\ caixas_restantes' = n
    /\ pc' = "caixas"
    /\ UNCHANGED << acesso_concedido_tempo, tentativas_reconhecimento,
                    ultimo_rosto_reconhecido >>
    /\ frame_id' = IF n = 0 THEN << "sem_rosto" >> ELSE << "vazio" >>
    /\ UNCHANGED << ids_treinamento, dados_validacao, dados_usuario,
                    captura_de_video, liberacoes, retornos, motivo,
                    predicao, nivel, decorrido, cena,
                    documentos_abertos, nivel_concedido, seq_id, seq_n,
                    vars_adm, vars_treino, vars_fn,
                    vars_captura >>

\* LerFrame without line 304: a frame with no box leaves the counter
LerFrameSemZerar(n) ==
    /\ pc = "loop"
    /\ frames_lidos < MaxFrames
    /\ frames_lidos' = frames_lidos + 1
    /\ caixas_restantes' = n
    /\ pc' = "caixas"
    /\ IF n = 0
       THEN /\ acesso_concedido_tempo' = None
            /\ ultimo_rosto_reconhecido' = SemCpf
            /\ frame_id' = << "sem_rosto" >>
            /\ UNCHANGED tentativas_reconhecimento
       ELSE /\ UNCHANGED << acesso_concedido_tempo, tentativas_reconhecimento,
                            ultimo_rosto_reconhecido >>
            /\ frame_id' = << "vazio" >>
    /\ UNCHANGED << ids_treinamento, dados_validacao, dados_usuario,
                    captura_de_video, liberacoes, retornos, motivo,
                    predicao, nivel, decorrido, cena,
                    documentos_abertos, nivel_concedido, seq_id, seq_n,
                    vars_adm, vars_treino, vars_fn,
                    vars_captura >>

\* lines 286-305: a frame is read and the detector returns n boxes; with no
\* box the decision state is reset
LerFrame(n) ==
    /\ pc = "loop"
    /\ frames_lidos < MaxFrames
    /\ frames_lidos' = frames_lidos + 1
    /\ caixas_restantes' = n
    /\ pc' = "caixas"
    /\ IF n = 0
       THEN /\ acesso_concedido_tempo' = None
            /\ tentativas_reconhecimento' = 0
            /\ ultimo_rosto_reconhecido' = SemCpf
            /\ frame_id' = << "sem_rosto" >>
       ELSE /\ UNCHANGED << acesso_concedido_tempo, tentativas_reconhecimento,
                            ultimo_rosto_reconhecido >>
            /\ frame_id' = << "vazio" >>
    /\ UNCHANGED << ids_treinamento, dados_validacao, dados_usuario,
                    captura_de_video, liberacoes, retornos, motivo,
                    predicao, nivel, decorrido, cena,
                    documentos_abertos, nivel_concedido, seq_id, seq_n,
                    vars_adm, vars_treino, vars_fn,
                    vars_captura >>

\* what the frame has shown so far: "vazio" (no prediction yet), one cpf
\* (every prediction accepted and resolved to it) or "misto"
ObservarCaixa(visto, resultado) ==
    IF resultado \in CPFs /\ visto \in {<< "vazio" >>, resultado}
    THEN resultado
    ELSE << "misto" >>

\* lines 323-329: the debounce
Tentativas(cpf) ==
    IF ultimo_rosto_reconhecido = cpf
    THEN tentativas_reconhecimento + 1
    ELSE 1

\* lines 307-393: the body of the for loop, for one detected box of side l
\* for which predict (if called) returns (r, c)
ProcessarCaixa(l, r, c) ==
    /\ pc = "caixas"
    /\ caixas_restantes > 0
    /\ IF l < MIN_TAMANHO_ROSTO
       THEN \* continue
            /\ caixas_restantes' = caixas_restantes - 1
            /\ UNCHANGED << pc, predicao, nivel, decorrido,
                            acesso_concedido_tempo, tentativas_reconhecimento,
                            ultimo_rosto_reconhecido, frame_id >>
       ELSE
         /\ predicao' = << r, c >>
         /\ IF Aceito(r, c, ids_treinamento)
            THEN LET id_unico_encontrado == Indexar(ids_treinamento, r)
                     cpf_encontrado == CpfDoId(dados_usuario, id_unico_encontrado)
                     ns == obter_nivel_e_status(cpf_encontrado, dados_validacao)
                 IN IF cpf_encontrado # SemCpf
                    THEN /\ tentativas_reconhecimento' = Tentativas(cpf_encontrado)
                         /\ ultimo_rosto_reconhecido' = cpf_encontrado
                         /\ nivel' = ns[1]
                         /\ frame_id' = ObservarCaixa(frame_id, cpf_encontrado)
                         /\ UNCHANGED acesso_concedido_tempo
                         /\ IF Concede(ns[2], tentativas_reconhecimento')
                            THEN \* lines 349-361: the screen freezes
                                 /\ pc' = "congelado"
                                 /\ decorrido' = 0
                                 /\ UNCHANGED caixas_restantes
                            ELSE /\ caixas_restantes' = caixas_restantes - 1
                                 /\ UNCHANGED << pc, decorrido >>
                    ELSE \* lines 384-386: no record carries the token
                         /\ acesso_concedido_tempo' = None
                         /\ tentativas_reconhecimento' = 0
                         /\ frame_id' = ObservarCaixa(frame_id, << "orfao" >>)
                         /\ caixas_restantes' = caixas_restantes - 1
                         /\ UNCHANGED << pc, decorrido, nivel,
                                         ultimo_rosto_reconhecido >>
            ELSE \* lines 387-393: unknown face
                 /\ acesso_concedido_tempo' = None
                 /\ tentativas_reconhecimento' = 0
                 /\ ultimo_rosto_reconhecido' = SemCpf
                 /\ frame_id' = ObservarCaixa(frame_id, << "desconhecido" >>)
                 /\ caixas_restantes' = caixas_restantes - 1
                 /\ UNCHANGED << pc, decorrido, nivel >>
    /\ UNCHANGED << ids_treinamento, dados_validacao, dados_usuario,
                    captura_de_video, liberacoes, retornos, motivo,
                    frames_lidos, cena, documentos_abertos, nivel_concedido,
                    seq_id, seq_n, vars_adm, vars_treino, vars_fn,
                    vars_captura >>

\* the run of frames fed so far: after a frame of one identity the run is
\* (cpf, length); a frame without faces restarts it; any other frame leaves
\* the sequences the debounce property speaks of ("fora") until a restart
ObservarFrame ==
    IF frame_id = << "sem_rosto" >>
    THEN << SemCpf, 0 >>
    ELSE IF frame_id \in CPFs /\ seq_id # << "fora" >>
         THEN IF seq_id = frame_id
              THEN << seq_id, seq_n + 1 >>
              ELSE << frame_id, 1 >>
         ELSE << << "fora" >>, 0 >>

\* lines 395-396: all boxes done; imshow, then waitKey(1) sees 'q' or not
FimFrame(q) ==
    /\ pc = "caixas"
    /\ caixas_restantes = 0
    /\ seq_id' = ObservarFrame[1]
    /\ seq_n' = ObservarFrame[2]
    /\ IF q
       THEN Sair("q")
       ELSE /\ pc' = "loop"
            /\ UNCHANGED << captura_de_video, liberacoes, retornos, motivo >>
    /\ UNCHANGED << ids_treinamento, dados_validacao, dados_usuario,
                    acesso_concedido_tempo, tentativas_reconhecimento,
                    ultimo_rosto_reconhecido, frames_lidos, caixas_restantes,
                    predicao, nivel, decorrido, cena,
                    documentos_abertos, nivel_concedido, frame_id,
                    vars_adm, vars_treino, vars_fn,
                    vars_captura >>

EsperarComCancelamento(c) ==
    /\ pc = "congelado"
    /\ decorrido < DURACAO_CONGELAMENTO_MS
    /\ cena' = c
    /\ IF c \in CenasDiferentes
       THEN /\ pc' = "caixas"
            /\ caixas_restantes' = 0
            /\ decorrido' = 0
            /\ tentativas_reconhecimento' = 0
            /\ ultimo_rosto_reconhecido' = SemCpf
       ELSE /\ decorrido' = decorrido + PASSO_ESPERA_MS
            /\ UNCHANGED << pc, caixas_restantes, tentativas_reconhecimento,
                            ultimo_rosto_reconhecido >>
    /\ UNCHANGED << ids_treinamento, dados_validacao, dados_usuario,
                    captura_de_video, liberacoes, retornos, motivo,
                    acesso_concedido_tempo, frames_lidos, predicao, nivel,
                    documentos_abertos, nivel_concedido, frame_id, seq_id, seq_n,
                    vars_adm, vars_treino, vars_fn,
                    vars_captura >>

\* lines 361-372: one turn of the countdown loop, waitKey(100); no frame is
\* read, whatever the camera shows meanwhile
EsperarCongelado(c) ==
    /\ pc = "congelado"
    /\ decorrido < DURACAO_CONGELAMENTO_MS
    /\ decorrido' = decorrido + PASSO_ESPERA_MS
    /\ cena' = c
    /\ UNCHANGED << ids_treinamento, dados_validacao, dados_usuario,
                    pc, captura_de_video, liberacoes, retornos, motivo,
                    acesso_concedido_tempo, tentativas_reconhecimento,
                    ultimo_rosto_reconhecido, frames_lidos, caixas_restantes,
                    predicao, nivel,
                    documentos_abertos, nivel_concedido, frame_id, seq_id, seq_n,
                    vars_adm, vars_treino, vars_fn,
                    vars_captura >>

\* lines 362, 374-377: the countdown is over; the grant: release, then
\* mostrar_documentos(nivel)
ConcederAcessoSemEspera ==
    /\ pc = "congelado"
    /\ captura_de_video' = "liberada"
    /\ liberacoes' = liberacoes + 1
    /\ documentos_abertos' = documentos_abertos + 1
    /\ nivel_concedido' = nivel
    /\ pc' = "documentos"
    /\ UNCHANGED << ids_treinamento, dados_validacao, dados_usuario,
                    retornos, motivo,
                    acesso_concedido_tempo, tentativas_reconhecimento,
                    ultimo_rosto_reconhecido, frames_lidos, caixas_restantes,
                    predicao, nivel, decorrido, cena,
                    frame_id, seq_id, seq_n, vars_adm, vars_treino, vars_fn,
                    vars_captura >>

ConcederAcessoSemParar ==
    /\ pc = "congelado"
    /\ decorrido >= DURACAO_CONGELAMENTO_MS
    /\ documentos_abertos' = documentos_abertos + 1
    /\ nivel_concedido' = nivel
    /\ pc' = "loop"
    /\ decorrido' = 0
    /\ UNCHANGED << ids_treinamento, dados_validacao, dados_usuario,
                    captura_de_video, liberacoes, retornos, motivo,
                    acesso_concedido_tempo, tentativas_reconhecimento,
                    ultimo_rosto_reconhecido, frames_lidos, caixas_restantes,
                    predicao, nivel, cena,
                    frame_id, seq_id, seq_n, vars_adm, vars_treino, vars_fn,
                    vars_captura >>

ConcederAcesso ==
    /\ pc = "congelado"
    /\ decorrido >= DURACAO_CONGELAMENTO_MS
    /\ captura_de_video' = "liberada"
    /\ liberacoes' = liberacoes + 1
    /\ documentos_abertos' = documentos_abertos + 1
    /\ nivel_concedido' = nivel
    /\ pc' = "documentos"
    /\ UNCHANGED << ids_treinamento, dados_validacao, dados_usuario,
                    retornos, motivo,
                    acesso_concedido_tempo, tentativas_reconhecimento,
                    ultimo_rosto_reconhecido, frames_lidos, caixas_restantes,
                    predicao, nivel, decorrido, cena,
                    frame_id, seq_id, seq_n, vars_adm, vars_treino, vars_fn,
                    vars_captura >>

\* line 378: the viewer is closed and the function returns
FecharDocumentos ==
    /\ pc = "documentos"
    /\ pc' = "fim"
    /\ motivo' = "acesso"
    /\ retornos' = retornos + 1
    /\ UNCHANGED << ids_treinamento, dados_validacao, dados_usuario,
                    captura_de_video, liberacoes,
                    acesso_concedido_tempo, tentativas_reconhecimento,
                    ultimo_rosto_reconhecido, frames_lidos, caixas_restantes,
                    predicao, nivel, decorrido, cena,
                    documentos_abertos, nivel_concedido, frame_id, seq_id, seq_n,
                    vars_adm, vars_treino, vars_fn,
                    vars_captura >>

\* the persisted state a session runs on: the tables it loaded (lines
\* 415-416), a model with its sidecar, photos of every enrolled identity
DiscoDaSessao ==
    /\ arq_usuario = dados_usuario
    /\ arq_validacao = dados_validacao
    /\ base_usuario = << >>
    /\ base_validacao = << >>
    /\ faces = [t \in {1, 2, 3} |-> 1]
    /\ modelo_existe = TRUE
    /\ mapa_existe = TRUE
    /\ uuids = 4
    /\ ultima_op = None
    /\ entrada = SemEntrada
    /\ usaveis = [t \in {1, 2, 3} |-> 1]
    /\ mapa_ids = ids_treinamento
    /\ modelo_ordem = ids_treinamento
    /\ treino = SemTreino
    /\ SemChamada
    /\ SemCaptura

Init == InitRec /\ DiscoDaSessao

Next ==
    \/ \E ok \in BOOLEAN : AbrirCamera(ok)
    \/ FalhaLeitura
    \/ \E n \in 0..MaxCaixas : LerFrame(n)
    \/ \E l \in Lados, r \in Rotulos, c \in Confiancas : ProcessarCaixa(l, r, c)
    \/ \E q \in BOOLEAN : FimFrame(q)
    \/ \E c \in CenasIguais \cup CenasDiferentes : EsperarCongelado(c)
    \/ ConcederAcesso
    \/ FecharDocumentos

Spec == Init /\ [][Next]_vars

\* ====================================================================
\* Administration workflows and the persisted state
\* ====================================================================

\* ------------------------------------------------------------------ bounds
\* identity tokens (uuid4) generated in one run
MaxCadastros == 2
\* photos one capture session may add, photos one directory may hold
MaxFotosSessao == 3
MaxFotosPasta == 6

\* max_fotos of utils_admin.tirar_e_salvar_fotos
MAX_FOTOS == 10

\* --------------------------------------------------- operator input
CPF_A_FORMATADO ==
    << "1", "1", "1", ".", "1", "1", "1", ".", "1", "1", "1", "-", "1", "1" >>
CPF_CURTO == << "1", "2", "3" >>
CpfsDigitados == { << >>, CPF_A, CPF_A_FORMATADO, CPF_B, CPF_CURTO }
NomesDigitados == { "", "Ana" }
NiveisDigitados == { << >>, << "1" >>, << "3" >>, << "4" >>, << "x" >> }

\* ------------------------------------------------------- text helpers
Algarismos == << "0", "1", "2", "3", "4", "5", "6", "7", "8", "9" >>

\* str.isdigit
isdigit(txt) ==
    /\ Len(txt) > 0
    /\ \A i \in 1..Len(txt) : \E d \in 1..10 : Algarismos[d] = txt[i]

\* cpf.replace(".", "").replace("-", "")
LimparCpf(cpf) ==
    SelectSeq(cpf, LAMBDA ch : ch # "." /\ ch # "-")

CpfValido(cpf_limpo) ==
    Len(cpf_limpo) = 11 /\ isdigit(cpf_limpo)

ValorAlgarismo(ch) == (CHOOSE d \in 1..10 : Algarismos[d] = ch) - 1

\* int(nivel_digitado) for unsigned decimal text; -1 stands for ValueError
RECURSIVE ValorDecimal(_)
ValorDecimal(txt) ==
    IF Len(txt) = 0 THEN 0
    ELSE 10 * ValorDecimal(SubSeq(txt, 1, Len(txt) - 1))
         + ValorAlgarismo(txt[Len(txt)])

ConverterInt(txt) == IF isdigit(txt) THEN ValorDecimal(txt) ELSE -1

NivelValido(nivel_digitado) == ConverterInt(nivel_digitado) \in {1, 2, 3}

\* f"Nivel {nivel_int}"
NivelFormatado(nivel_digitado) == Niveis[ConverterInt(nivel_digitado)]

\* --------------------------------------------------------- dict helpers
\* cpf in dados_usuario
TemChave(du, cpf) == \E i \in 1..Len(du) : du[i].cpf = cpf

IdDe(du, cpf) == du[CHOOSE i \in 1..Len(du) : du[i].cpf = cpf].id

\* dados_usuario[cpf] = {"nome": nome, "id": id}
DefinirUsuario(du, cpf, nome, id) ==
    IF TemChave(du, cpf)
    THEN [i \in 1..Len(du) |->
            IF du[i].cpf = cpf THEN [cpf |-> cpf, nome |-> nome, id |-> id]
            ELSE du[i]]
    ELSE Append(du, [cpf |-> cpf, nome |-> nome, id |-> id])

\* del dados_usuario[cpf]
ApagarUsuario(du, cpf) == SelectSeq(du, LAMBDA e : e.cpf # cpf)

\* if nivel not in dados_validacao: dados_validacao[nivel] = {"pessoas": []}
GarantirNivel(dv, nv) ==
    IF \E i \in 1..Len(dv) : dv[i].nivel = nv
    THEN dv
    ELSE Append(dv, [nivel |-> nv, pessoas |-> << >>])

\* dados_validacao[nivel]["pessoas"].append(cpf)
AnexarPessoa(dv, nv, cpf) ==
    LET d == GarantirNivel(dv, nv)
    IN [i \in 1..Len(d) |->
          IF d[i].nivel = nv
          THEN [d[i] EXCEPT !.pessoas = Append(@, cpf)]
          ELSE d[i]]

\* the same, under `if cpf not in dados_validacao[nivel]["pessoas"]`
AnexarPessoaSeAusente(dv, nv, cpf) ==
    LET d == GarantirNivel(dv, nv)
    IN [i \in 1..Len(d) |->
          IF d[i].nivel = nv /\ ~Contem(d[i].pessoas, cpf)
          THEN [d[i] EXCEPT !.pessoas = Append(@, cpf)]
          ELSE d[i]]

\* list.remove(x): the first occurrence
RemoverPrimeira(lista, x) ==
    LET k == CHOOSE i \in 1..Len(lista) :
                 /\ lista[i] = x
                 /\ \A j \in 1..(i - 1) : lista[j] # x
    IN SubSeq(lista, 1, k - 1) \o SubSeq(lista, k + 1, Len(lista))

\* the loop of excluir_usuario: remove from the first tier listing cpf, break
RemoverDoPrimeiroNivel(dv, cpf) ==
    IF \E i \in 1..Len(dv) : Contem(dv[i].pessoas, cpf)
    THEN LET k == CHOOSE i \in 1..Len(dv) :
                      /\ Contem(dv[i].pessoas, cpf)
                      /\ \A j \in 1..(i - 1) : ~Contem(dv[j].pessoas, cpf)
         IN [i \in 1..Len(dv) |->
               IF i = k
               THEN [dv[i] EXCEPT !.pessoas = RemoverPrimeira(@, cpf)]
               ELSE dv[i]]
    ELSE dv

\* ------------------------------------------------------ the photo corpus
\* faces maps the token of every existing directory to its number of photos
TemPasta(id) == id \in DOMAIN faces

FotosDe(id) == IF TemPasta(id) THEN faces[id] ELSE 0

ComFotos(id, n) ==
    [t \in DOMAIN faces \cup {id} |-> IF t = id THEN n ELSE faces[t]]

\* shutil.rmtree
SemPasta(id) == [t \in DOMAIN faces \ {id} |-> faces[t]]

\* ------------------------------------------------- model invalidation
\* os.remove: FileNotFoundError when the file does not exist
os_remove(existe) == [existe |-> FALSE, erro |-> ~existe]

\* utils_admin.invalidar_modelo_treinado on (model file, sidecar)
invalidar_sem_teste(m, s) ==
    LET r1 == os_remove(m)
        r2 == IF r1.erro THEN [existe |-> s, erro |-> TRUE] ELSE os_remove(s)
    IN [modelo |-> r1.existe, mapa |-> r2.existe, erro |-> r2.erro]

invalidar_modelo_treinado(m, s) ==
    LET r1 == IF m THEN os_remove(m) ELSE [existe |-> m, erro |-> FALSE]
        r2 == IF s THEN os_remove(s) ELSE [existe |-> s, erro |-> FALSE]
    IN [modelo |-> r1.existe, mapa |-> r2.existe, erro |-> r1.erro \/ r2.erro]

Invalidar ==
    LET r == invalidar_modelo_treinado(modelo_existe, mapa_existe)
    IN /\ modelo_existe' = r.modelo
       /\ mapa_existe' = r.mapa

\* a direct call of invalidar_modelo_treinado
InvalidarModelo ==
    LET r == invalidar_modelo_treinado(modelo_existe, mapa_existe)
    IN /\ modelo_existe' = r.modelo
       /\ mapa_existe' = r.mapa
       /\ ultima_op' = IF r.erro THEN "erro"
                       ELSE IF ultima_op \in {"invalidar", "invalidar_de_novo"}
                            THEN "invalidar_de_novo"
                            ELSE "invalidar"
       /\ UNCHANGED << arq_usuario, arq_validacao, base_usuario, base_validacao,
                       faces, uuids, vars_rec, vars_treino, vars_fn,
                       vars_captura >>


\* ------------------------------------------------- what an operator does
\* photos one capture session ends with
FotosPorSessao == { 0, MaxFotosSessao }
\* shutil.rmtree: done, raised before removing anything, raised half way
ResultadosRmtree == { "ok", "falha", "parcial" }
\* the answers to the menu of gerenciar_fotos_usuario, "1" apart
Opcoes == { "2", "3", "4", "5", "x" }

Menor(a, b) == IF a < b THEN a ELSE b

NovoId == uuids + 1

\* app.py is not running: its session and what it trained stay as they
\* are.  The workflows are modelled on the number of photos of a directory;
\* usaveis, the detector's verdict on those photos, is read by the training
\* pass of SpecTreino only, where no workflow runs.
RecOcioso == UNCHANGED << vars_rec, vars_treino, vars_fn, vars_captura >>

\* ---------------------------------------------- utils_admin workflows
\* utils_admin.tirar_e_salvar_fotos: the photos a session of n captures
\* leaves behind (the loop ends at max_fotos)
ua_tirar_e_salvar_fotos(camera_ok, n) ==
    IF camera_ok THEN Menor(n, MAX_FOTOS) ELSE 0

ua_criar_novo_usuario_via_gui(nome_completo, cpf, nivel_digitado) ==
    LET cpf_limpo == LimparCpf(cpf)
    IN /\ uuids < MaxCadastros
       /\ ultima_op' = "fluxo"
       /\ IF \/ nome_completo = ""
             \/ cpf = << >>
             \/ nivel_digitado = << >>
             \/ ~CpfValido(cpf_limpo)
             \/ ~NivelValido(nivel_digitado)
             \/ TemChave(arq_usuario, cpf_limpo)
          THEN UNCHANGED << arq_usuario, arq_validacao, faces, uuids,
                            modelo_existe, mapa_existe >>
          ELSE /\ uuids' = NovoId
               /\ \E camera_ok \in BOOLEAN, n \in FotosPorSessao :
                    LET fotos_tiradas == ua_tirar_e_salvar_fotos(camera_ok, n)
                    IN IF fotos_tiradas = 0
                       THEN UNCHANGED << arq_usuario, arq_validacao, faces,
                                         modelo_existe, mapa_existe >>
                       ELSE \E ok_validacao \in BOOLEAN, ok_usuario \in BOOLEAN :
                              /\ faces' = ComFotos(NovoId, fotos_tiradas)
                              /\ arq_validacao' =
                                   IF ok_validacao
                                   THEN AnexarPessoa(
                                            arq_validacao,
                                            NivelFormatado(nivel_digitado),
                                            cpf_limpo)
                                   ELSE arq_validacao
                              /\ arq_usuario' =
                                   IF ok_validacao /\ ok_usuario
                                   THEN DefinirUsuario(arq_usuario, cpf_limpo,
                                                       nome_completo, NovoId)
                                   ELSE arq_usuario
                              /\ IF ok_validacao /\ ok_usuario
                                 THEN Invalidar
                                 ELSE UNCHANGED << modelo_existe, mapa_existe >>
       /\ UNCHANGED << base_usuario, base_validacao >>
       /\ RecOcioso

ua_adicionar_mais_fotos(cpf) ==
    /\ ultima_op' = "fluxo"
    /\ IF cpf = << >> \/ ~TemChave(arq_usuario, cpf)
       THEN UNCHANGED << faces, modelo_existe, mapa_existe >>
       ELSE \E camera_ok \in BOOLEAN, n \in FotosPorSessao :
              LET id_unico == IdDe(arq_usuario, cpf)
                  fotos_adicionadas == ua_tirar_e_salvar_fotos(camera_ok, n)
              IN /\ FotosDe(id_unico) + fotos_adicionadas <= MaxFotosPasta
                 /\ faces' = ComFotos(id_unico,
                                      FotosDe(id_unico) + fotos_adicionadas)
                 /\ IF fotos_adicionadas > 0
                    THEN Invalidar
                    ELSE UNCHANGED << modelo_existe, mapa_existe >>
    /\ UNCHANGED << arq_usuario, arq_validacao, base_usuario, base_validacao,
                    uuids >>
    /\ RecOcioso

\* manter_apenas_fotos_recentes without the test of line 747: the model is
\* invalidated whether or not a photo was removed
manter_sem_contar(id_unico, quantidade) ==
    IF FotosDe(id_unico) <= quantidade
    THEN UNCHANGED << faces, modelo_existe, mapa_existe >>
    ELSE \E fotos_removidas \in 0..(FotosDe(id_unico) - quantidade) :
           /\ faces' = ComFotos(id_unico, FotosDe(id_unico) - fotos_removidas)
           /\ Invalidar

\* any number of the surplus photos may fail to be removed
manter_apenas_fotos_recentes(id_unico, quantidade) ==
    IF FotosDe(id_unico) <= quantidade
    THEN UNCHANGED << faces, modelo_existe, mapa_existe >>
    ELSE \E fotos_removidas \in 0..(FotosDe(id_unico) - quantidade) :
           /\ faces' = ComFotos(id_unico, FotosDe(id_unico) - fotos_removidas)
           /\ IF fotos_removidas > 0
              THEN Invalidar
              ELSE UNCHANGED << modelo_existe, mapa_existe >>

\* options 2, 3, 4 (keep 30, 10, 5), 5 and anything else; option 1 is
\* ua_adicionar_mais_fotos, which asks for the CPF again
ua_gerenciar_fotos_usuario(cpf, opcao) ==
    /\ ultima_op' = "fluxo"
    /\ IF \/ cpf = << >>
          \/ ~TemChave(arq_usuario, cpf)
          \/ ~TemPasta(IdDe(arq_usuario, cpf))
          \/ FotosDe(IdDe(arq_usuario, cpf)) = 0
          \/ opcao \notin {"2", "3", "4"}
       THEN UNCHANGED << faces, modelo_existe, mapa_existe >>
       ELSE manter_apenas_fotos_recentes(
                IdDe(arq_usuario, cpf),
                IF opcao = "2" THEN 30 ELSE IF opcao = "3" THEN 10 ELSE 5)
    /\ UNCHANGED << arq_usuario, arq_validacao, base_usuario, base_validacao,
                    uuids >>
    /\ RecOcioso

\* excluir_usuario without the test of line 764: the answer of the
\* confirmation dialog is not looked at
ua_excluir_sem_confirmar(cpf, resposta) ==
    /\ ultima_op' = "fluxo"
    /\ IF cpf = << >> \/ ~TemChave(arq_usuario, cpf)
       THEN UNCHANGED << arq_usuario, arq_validacao, faces,
                         modelo_existe, mapa_existe >>
       ELSE LET id_unico == IdDe(arq_usuario, cpf)
            IN /\ faces' = SemPasta(id_unico)
               /\ arq_validacao' = RemoverDoPrimeiroNivel(arq_validacao, cpf)
               /\ arq_usuario' = ApagarUsuario(arq_usuario, cpf)
               /\ Invalidar
    /\ UNCHANGED << base_usuario, base_validacao, uuids >>
    /\ RecOcioso

ua_excluir_usuario(cpf, resposta) ==
    /\ ultima_op' = "fluxo"
    /\ IF cpf = << >> \/ ~TemChave(arq_usuario, cpf) \/ ~resposta
       THEN UNCHANGED << arq_usuario, arq_validacao, faces,
                         modelo_existe, mapa_existe >>
       ELSE \E rmtree \in ResultadosRmtree :
              LET id_unico == IdDe(arq_usuario, cpf)
              IN IF TemPasta(id_unico) /\ rmtree # "ok"
                 THEN /\ faces' = IF rmtree = "parcial"
                                  THEN ComFotos(id_unico, 0)
                                  ELSE faces
                      /\ UNCHANGED << arq_usuario, arq_validacao,
                                      modelo_existe, mapa_existe >>
                 ELSE \E ok_validacao \in BOOLEAN, ok_usuario \in BOOLEAN :
                        /\ faces' = SemPasta(id_unico)
                        /\ arq_validacao' =
                             IF ok_validacao
                             THEN RemoverDoPrimeiroNivel(arq_validacao, cpf)
                             ELSE arq_validacao
                        /\ arq_usuario' =
                             IF ok_usuario
                             THEN ApagarUsuario(arq_usuario, cpf)
                             ELSE arq_usuario
                        /\ Invalidar
    /\ UNCHANGED << base_usuario, base_validacao, uuids >>
    /\ RecOcioso

\* ------------------- document_viewer, cadastro_app, admin_app workflows
\* enrollment of document_viewer.criar_novo_usuario_via_gui and of
\* cadastro_app.salvar_dados_pessoa, which differ in the dialogs only
CriarNaBase(nome_completo, cpf, nivel_digitado) ==
    LET cpf_limpo == LimparCpf(cpf)
    IN /\ uuids < MaxCadastros
       /\ ultima_op' = "fluxo"
       /\ IF \/ nome_completo = ""
             \/ cpf = << >>
             \/ nivel_digitado = << >>
             \/ ~CpfValido(cpf_limpo)
             \/ ~NivelValido(nivel_digitado)
             \/ TemChave(base_usuario, cpf)
          THEN UNCHANGED << base_usuario, base_validacao, faces, uuids >>
          ELSE /\ uuids' = NovoId
               /\ \E camera_ok \in BOOLEAN, n \in FotosPorSessao :
                    LET fotos_tiradas == IF camera_ok THEN n ELSE 0
                    IN /\ faces' = ComFotos(NovoId, fotos_tiradas)
                       /\ IF fotos_tiradas = 0
                          THEN UNCHANGED << base_usuario, base_validacao >>
                          ELSE \E ok_validacao \in BOOLEAN,
                                  ok_usuario \in BOOLEAN :
                                 /\ base_validacao' =
                                      IF ok_validacao
                                      THEN AnexarPessoaSeAusente(
                                               base_validacao,
                                               NivelFormatado(nivel_digitado),
                                               cpf)
                                      ELSE base_validacao
                                 /\ base_usuario' =
                                      IF ok_validacao /\ ok_usuario
                                      THEN DefinirUsuario(base_usuario, cpf,
                                                          nome_completo, NovoId)
                                      ELSE base_usuario
       /\ UNCHANGED << arq_usuario, arq_validacao, modelo_existe, mapa_existe >>
       /\ RecOcioso

dv_criar_novo_usuario_via_gui(nome_completo, cpf, nivel_digitado) ==
    CriarNaBase(nome_completo, cpf, nivel_digitado)

ca_salvar_dados_pessoa(nome_completo, cpf, nivel_digitado) ==
    CriarNaBase(nome_completo, cpf, nivel_digitado)

\* adicionar_mais_fotos of document_viewer and of admin_app
AdicionarNaBase(cpf) ==
    /\ ultima_op' = "fluxo"
    /\ IF \/ ~TemChave(base_usuario, cpf)
          \/ ~TemPasta(IdDe(base_usuario, cpf))
       THEN UNCHANGED faces
       ELSE \E camera_ok \in BOOLEAN, n \in FotosPorSessao :
              LET id_unico == IdDe(base_usuario, cpf)
                  fotos_adicionadas == IF camera_ok THEN n ELSE 0
              IN /\ FotosDe(id_unico) + fotos_adicionadas <= MaxFotosPasta
                 /\ faces' = ComFotos(id_unico,
                                      FotosDe(id_unico) + fotos_adicionadas)
    /\ UNCHANGED << arq_usuario, arq_validacao, base_usuario, base_validacao,
                    modelo_existe, mapa_existe, uuids >>
    /\ RecOcioso

dv_adicionar_mais_fotos(cpf) == AdicionarNaBase(cpf)

aa_adicionar_mais_fotos(cpf) == AdicionarNaBase(cpf)

\* excluir_usuario of document_viewer and of admin_app
ExcluirDaBase(cpf, resposta) ==
    /\ ultima_op' = "fluxo"
    /\ IF ~TemChave(base_usuario, cpf) \/ ~resposta
       THEN UNCHANGED << base_usuario, base_validacao, faces >>
       ELSE \E rmtree \in ResultadosRmtree :
              LET id_unico == IdDe(base_usuario, cpf)
              IN IF TemPasta(id_unico) /\ rmtree # "ok"
                 THEN /\ faces' = IF rmtree = "parcial"
                                  THEN ComFotos(id_unico, 0)
                                  ELSE faces
                      /\ UNCHANGED << base_usuario, base_validacao >>
                 ELSE \E ok_validacao \in BOOLEAN, ok_usuario \in BOOLEAN :
                        /\ faces' = SemPasta(id_unico)
                        /\ base_validacao' =
                             IF ok_validacao
                             THEN RemoverDoPrimeiroNivel(base_validacao, cpf)
                             ELSE base_validacao
                        /\ base_usuario' =
                             IF ok_usuario
                             THEN ApagarUsuario(base_usuario, cpf)
                             ELSE base_usuario
    /\ UNCHANGED << arq_usuario, arq_validacao, modelo_existe, mapa_existe,
                    uuids >>
    /\ RecOcioso

dv_excluir_usuario(cpf, resposta) == ExcluirDaBase(cpf, resposta)

aa_excluir_usuario(cpf, resposta) == ExcluirDaBase(cpf, resposta)

\* ----------------------------------------------- app.py at start-up
\* the table is loaded; an existing model and sidecar are loaded as they
\* are, otherwise treinar_e_salvar_modelo writes both when some photo of a
\* listed identity shows a face
CarregarOuTreinar ==
    /\ ultima_op' = "fluxo"
    /\ IF arq_usuario = << >> \/ (modelo_existe /\ mapa_existe)
       THEN UNCHANGED << modelo_existe, mapa_existe >>
       ELSE \E ha_rosto \in BOOLEAN, ok_mapa \in BOOLEAN :
              IF ha_rosto
              THEN /\ \E i \in 1..Len(arq_usuario) :
                        FotosDe(arq_usuario[i].id) > 0
                   /\ modelo_existe' = TRUE
                   /\ mapa_existe' = (ok_mapa \/ mapa_existe)
              ELSE UNCHANGED << modelo_existe, mapa_existe >>
    /\ UNCHANGED << arq_usuario, arq_validacao, base_usuario, base_validacao,
                    faces, uuids >>
    /\ RecOcioso

\* ------------------------------------------------------ specification
\* no recognition session runs while the workflows are exercised
RecParado ==
    /\ ids_treinamento = << >>
    /\ dados_validacao = << >>
    /\ dados_usuario = << >>
    /\ pc = "inicio"
    /\ captura_de_video = "fechada"
    /\ liberacoes = 0
    /\ retornos = 0
    /\ motivo = None
    /\ acesso_concedido_tempo = None
    /\ tentativas_reconhecimento = 0
    /\ ultimo_rosto_reconhecido = SemCpf
    /\ frames_lidos = 0
    /\ caixas_restantes = 0
    /\ predicao = SemValor
    /\ nivel = None
    /\ decorrido = 0
    /\ cena = None
    /\ documentos_abertos = 0
    /\ nivel_concedido = None
    /\ frame_id = << "vazio" >>
    /\ seq_id = << "fora" >>
    /\ seq_n = 0

\* a fresh installation; the model files may be left over from before
InitAdmin ==
    /\ RecParado
    /\ arq_usuario = << >>
    /\ arq_validacao = << >>
    /\ base_usuario = << >>
    /\ base_validacao = << >>
    /\ faces = << >>
    /\ modelo_existe \in BOOLEAN
    /\ mapa_existe \in BOOLEAN
    /\ uuids = 0
    /\ ultima_op = None
    /\ entrada = SemEntrada
    /\ usaveis = << >>
    /\ mapa_ids = << >>
    /\ modelo_ordem = << >>
    /\ treino = SemTreino
    /\ SemChamada
    /\ SemCaptura

SemRegistro == entrada' = SemEntrada

\* one step of each workflow, the operator's input not recorded
Fluxo_ua_criar ==
    /\ \E nome \in NomesDigitados, cpf \in CpfsDigitados,
          nv \in NiveisDigitados :
          ua_criar_novo_usuario_via_gui(nome, cpf, nv)
    /\ SemRegistro

Fluxo_ua_adicionar ==
    /\ \E cpf \in CpfsDigitados : ua_adicionar_mais_fotos(cpf)
    /\ SemRegistro

Fluxo_ua_gerenciar ==
    /\ \E cpf \in CpfsDigitados, opcao \in Opcoes :
          ua_gerenciar_fotos_usuario(cpf, opcao)
    /\ SemRegistro

Fluxo_ua_excluir ==
    /\ \E cpf \in CpfsDigitados, resposta \in BOOLEAN :
          ua_excluir_usuario(cpf, resposta)
    /\ SemRegistro

Fluxo_invalidar == InvalidarModelo /\ SemRegistro

Fluxo_treinar == CarregarOuTreinar /\ SemRegistro

Fluxo_dv_criar ==
    /\ \E nome \in NomesDigitados, cpf \in CpfsDigitados,
          nv \in NiveisDigitados :
          dv_criar_novo_usuario_via_gui(nome, cpf, nv)
    /\ SemRegistro

Fluxo_dv_adicionar ==
    /\ \E cpf \in CpfsDigitados : dv_adicionar_mais_fotos(cpf)
    /\ SemRegistro

Fluxo_dv_excluir ==
    /\ \E cpf \in CpfsDigitados, resposta \in BOOLEAN :
          dv_excluir_usuario(cpf, resposta)
    /\ SemRegistro

Fluxo_aa_adicionar ==
    /\ \E cpf \in CpfsDigitados : aa_adicionar_mais_fotos(cpf)
    /\ SemRegistro

Fluxo_aa_excluir ==
    /\ \E cpf \in CpfsDigitados, resposta \in BOOLEAN :
          aa_excluir_usuario(cpf, resposta)
    /\ SemRegistro

Fluxo_ca_salvar ==
    /\ \E nome \in NomesDigitados, cpf \in CpfsDigitados,
          nv \in NiveisDigitados :
          ca_salvar_dados_pessoa(nome, cpf, nv)
    /\ SemRegistro

\* the workflows of utils_admin, on the tables of Usuarios_Cadastrados
NextAdmin ==
    \/ Fluxo_ua_criar
    \/ Fluxo_ua_adicionar
    \/ Fluxo_ua_gerenciar
    \/ Fluxo_ua_excluir
    \/ Fluxo_invalidar
    \/ Fluxo_treinar

\* the workflows of the viewer's panel, of admin_app and of cadastro_app,
\* on the tables beside the sources
NextPainel ==
    \/ Fluxo_dv_criar
    \/ Fluxo_dv_adicionar
    \/ Fluxo_dv_excluir
    \/ Fluxo_aa_adicionar
    \/ Fluxo_aa_excluir
    \/ Fluxo_ca_salvar

SpecAdmin == InitAdmin /\ [][NextAdmin]_vars

SpecPainel == InitAdmin /\ [][NextPainel]_vars

\* ------------------------------------------- enrollment and deletion,
\* ------------------------------------------- the operator's input recorded
Registrar(op, nome, cpf, nv, resposta) ==
    entrada' = [op |-> op, nome |-> nome, cpf |-> cpf, nivel |-> nv,
                resposta |-> resposta]

Registro_ua_criar ==
    \E nome \in NomesDigitados, cpf \in CpfsDigitados, nv \in NiveisDigitados :
       /\ ua_criar_novo_usuario_via_gui(nome, cpf, nv)
       /\ Registrar("ua_criar", nome, cpf, nv, FALSE)

Registro_ua_excluir ==
    \E cpf \in CpfsDigitados, resposta \in BOOLEAN :
       /\ ua_excluir_usuario(cpf, resposta)
       /\ Registrar("ua_excluir", "", cpf, << >>, resposta)

Registro_aa_excluir ==
    \E cpf \in CpfsDigitados, resposta \in BOOLEAN :
       /\ aa_excluir_usuario(cpf, resposta)
       /\ Registrar("aa_excluir", "", cpf, << >>, resposta)

\* enrollment and deletion through utils_admin
NextRegistro ==
    \/ Registro_ua_criar
    \/ Registro_ua_excluir

SpecRegistro == InitAdmin /\ [][NextRegistro]_vars

\* enrollments made in one run of SpecExclusao
MaxFichas == 1

\* an enrollment while fewer than MaxFichas were made
Ficha_ua_criar == uuids < MaxFichas /\ Fluxo_ua_criar

Ficha_dv_criar == uuids < MaxFichas /\ Fluxo_dv_criar

\* deletion through utils_admin and through admin_app, over the identities
\* that at most MaxFichas enrollments (of either family) leave
NextExclusao ==
    \/ Ficha_ua_criar
    \/ Ficha_dv_criar
    \/ Registro_ua_excluir
    \/ Registro_aa_excluir

SpecExclusao == InitAdmin /\ [][NextExclusao]_vars

\* deletion through utils_admin of an identity whose model was trained
NextFalha ==
    \/ Ficha_ua_criar
    \/ Fluxo_treinar
    \/ Registro_ua_excluir

SpecFalha == InitAdmin /\ [][NextFalha]_vars

\* ------------------------------------------- photo workflows of
\* ------------------------------------------- utils_admin, input recorded
Registro_ua_adicionar ==
    \E cpf \in CpfsDigitados :
       /\ ua_adicionar_mais_fotos(cpf)
       /\ Registrar("ua_adicionar", "", cpf, << >>, FALSE)

\* the option typed is recorded in the place of the tier
Registro_ua_gerenciar ==
    \E cpf \in CpfsDigitados, opcao \in Opcoes :
       /\ ua_gerenciar_fotos_usuario(cpf, opcao)
       /\ Registrar("ua_gerenciar", "", cpf, << opcao >>, FALSE)

\* adding photos, pruning and deleting through utils_admin, over the
\* identities that at most MaxFichas enrollments leave, the model trained
\* in between
NextFotos ==
    \/ Ficha_ua_criar
    \/ Fluxo_treinar
    \/ Registro_ua_adicionar
    \/ Registro_ua_gerenciar
    \/ Registro_ua_excluir

SpecFotos == InitAdmin /\ [][NextFotos]_vars

\* ====================================================================
\* Training and the start of a session (app.py)
\* ====================================================================

\* ------------------------------------------------------------------ bounds
\* photos of one directory in the corpus of a training run
MaxFotosTreino == 1

USAR_DATA_AUGMENTATION == TRUE

\* --------------------------------------------------- the training set
\* utils_admin.aplicar_data_augmentation: the image, a brighter one and one
\* of higher contrast; an image is modelled by the directory it came from
aplicar_data_augmentation(imagem) == << imagem, imagem, imagem >>

\* ids_unicos = [dados['id'] for dados in dados_usuario.values()]
IdsUnicos(du) == [i \in 1..Len(du) |-> du[i].id]

\* {id_unico: i for i, id_unico in enumerate(ids_unicos)}[id_unico], with
\* enumerate counting from 1
rotulo_desde_um(ids_unicos, id_unico) ==
    CHOOSE i \in 1..Len(ids_unicos) :
       /\ ids_unicos[i] = id_unico
       /\ \A j \in (i + 1)..Len(ids_unicos) : ids_unicos[j] # id_unico

\* {id_unico: i for i, id_unico in enumerate(ids_unicos)}[id_unico]: a key
\* met again keeps its place and takes the later index
mapeamento_ids_para_rotulo(ids_unicos, id_unico) ==
    (CHOOSE i \in 1..Len(ids_unicos) :
        /\ ids_unicos[i] = id_unico
        /\ \A j \in (i + 1)..Len(ids_unicos) : ids_unicos[j] # id_unico) - 1

\* list(mapeamento_ids_para_rotulo.keys()) after the first k insertions
RECURSIVE Chaves(_, _)
Chaves(ids_unicos, k) ==
    IF k = 0 THEN << >>
    ELSE LET antes == Chaves(ids_unicos, k - 1)
         IN IF Contem(antes, ids_unicos[k]) THEN antes
            ELSE Append(antes, ids_unicos[k])

\* photos of the directory that are read, pass validar_qualidade_imagem
\* and show a face to detectMultiScale
UsaveisDe(id_unico) ==
    IF id_unico \in DOMAIN usaveis THEN usaveis[id_unico] ELSE 0

\* what the n usable photos of a directory append to faces
RECURSIVE AmostrasDaPasta(_, _)
AmostrasDaPasta(id_unico, n) ==
    IF n = 0 THEN << >>
    ELSE AmostrasDaPasta(id_unico, n - 1)
         \o (IF USAR_DATA_AUGMENTATION
             THEN aplicar_data_augmentation(id_unico)
             ELSE << id_unico >>)

\* faces after the first k passes of the loop of line 120
RECURSIVE Coletar(_, _)
Coletar(ids_unicos, k) ==
    IF k = 0 THEN << >>
    ELSE Coletar(ids_unicos, k - 1)
         \o (IF TemPasta(ids_unicos[k])
             THEN AmostrasDaPasta(ids_unicos[k], UsaveisDe(ids_unicos[k]))
             ELSE << >>)

\* obter_imagens_e_rotulos without the test of line 175
construir_sem_teste(ids_unicos) ==
    LET f == Coletar(ids_unicos, Len(ids_unicos))
    IN [feito |-> TRUE, nulo |-> FALSE, faces |-> f,
        ids |-> [k \in 1..Len(f) |->
                   mapeamento_ids_para_rotulo(ids_unicos, f[k])],
        ids_treinamento |-> Chaves(ids_unicos, Len(ids_unicos))]

\* obter_imagens_e_rotulos: faces (each sample as the directory it came
\* from), ids (its label), ids_treinamento; nulo for (None, None, None)
obter_imagens_e_rotulos(ids_unicos) ==
    LET f == Coletar(ids_unicos, Len(ids_unicos))
    IN IF f = << >>
       THEN [feito |-> TRUE, nulo |-> TRUE, faces |-> << >>, ids |-> << >>,
             ids_treinamento |-> << >>]
       ELSE [feito |-> TRUE, nulo |-> FALSE, faces |-> f,
             ids |-> [k \in 1..Len(f) |->
                        mapeamento_ids_para_rotulo(ids_unicos, f[k])],
             ids_treinamento |-> Chaves(ids_unicos, Len(ids_unicos))]

\* ------------------------------------------------- the start of app.py
\* the test of line 436 without its second operand
PodeReconhecerSemOrdem(reconhecedor, ids) == reconhecedor

\* if reconhecedor and ids_treinamento: None and [] are both false
PodeReconhecer(reconhecedor, ids) == reconhecedor /\ ids # << >>

\* lines 436-439: reconhecer_faces_webcam is called, or the program ends
Iniciar(reconhecedor, ids) ==
    IF PodeReconhecer(reconhecedor, ids)
    THEN /\ pc' = "inicio"
         /\ ids_treinamento' = ids
         /\ UNCHANGED motivo
    ELSE /\ pc' = "fim"
         /\ ids_treinamento' = << >>
         /\ motivo' = "sem_modelo"

ArquivosDoModelo == << modelo_existe, mapa_existe, mapa_ids, modelo_ordem >>

\* treinar_e_salvar_modelo, and what __main__ does with what it returns.
\* salvar_dados_json answers False when it cannot write, and line 229 does
\* not look at the answer; reconhecedor.write raises when it cannot.
treinar_e_salvar_modelo ==
    LET ids_unicos == IdsUnicos(arq_usuario)
        construido == obter_imagens_e_rotulos(ids_unicos)
    IN IF arq_usuario = << >> \/ ids_unicos = << >>
       THEN /\ UNCHANGED << ArquivosDoModelo, treino >>
            /\ Iniciar(FALSE, << >>)
       ELSE /\ treino' = construido
            /\ IF construido.nulo
               THEN /\ UNCHANGED ArquivosDoModelo
                    /\ Iniciar(FALSE, << >>)
               ELSE \E ok_modelo \in BOOLEAN, ok_mapa \in BOOLEAN :
                      IF ~ok_modelo
                      THEN /\ pc' = "fim"
                           /\ ids_treinamento' = << >>
                           /\ motivo' = "erro"
                           /\ UNCHANGED ArquivosDoModelo
                      ELSE /\ modelo_existe' = TRUE
                           /\ modelo_ordem' = construido.ids_treinamento
                           /\ mapa_existe' = (mapa_existe \/ ok_mapa)
                           /\ mapa_ids' = IF ok_mapa
                                          THEN construido.ids_treinamento
                                          ELSE mapa_ids
                           /\ Iniciar(TRUE, construido.ids_treinamento)

\* __main__ with MODO_DESENVOLVEDOR False, up to the call of
\* reconhecer_faces_webcam
Principal ==
    /\ pc = "partida"
    /\ dados_validacao' = arq_validacao
    /\ dados_usuario' = arq_usuario
    /\ IF arq_usuario = << >>
       THEN \* lines 419-421
            /\ pc' = "fim"
            /\ ids_treinamento' = << >>
            /\ motivo' = "sem_usuarios"
            /\ UNCHANGED << ArquivosDoModelo, treino >>
       ELSE IF modelo_existe /\ mapa_existe
            THEN \* lines 424-430
                 /\ Iniciar(TRUE, mapa_ids)
                 /\ UNCHANGED << ArquivosDoModelo, treino >>
            ELSE \* lines 431-433
                 treinar_e_salvar_modelo
    /\ UNCHANGED << captura_de_video, liberacoes, retornos,
                    acesso_concedido_tempo, tentativas_reconhecimento,
                    ultimo_rosto_reconhecido, frames_lidos, caixas_restantes,
                    predicao, nivel, decorrido, cena, documentos_abertos,
                    nivel_concedido, frame_id, seq_id, seq_n,
                    arq_usuario, arq_validacao, base_usuario, base_validacao,
                    faces, uuids, ultima_op, entrada, usaveis,
                    vars_fn, vars_captura >>

\* the program is started again
Reiniciar ==
    /\ pc = "fim"
    /\ pc' = "partida"
    /\ ids_treinamento' = << >>
    /\ dados_validacao' = << >>
    /\ dados_usuario' = << >>
    /\ captura_de_video' = "fechada"
    /\ liberacoes' = 0
    /\ retornos' = 0
    /\ motivo' = None
    /\ acesso_concedido_tempo' = None
    /\ tentativas_reconhecimento' = 0
    /\ ultimo_rosto_reconhecido' = SemCpf
    /\ frames_lidos' = 0
    /\ caixas_restantes' = 0
    /\ predicao' = SemValor
    /\ nivel' = None
    /\ decorrido' = 0
    /\ cena' = None
    /\ documentos_abertos' = 0
    /\ nivel_concedido' = None
    /\ frame_id' = << "vazio" >>
    /\ seq_id' = << "fora" >>
    /\ seq_n' = 0
    /\ UNCHANGED << vars_adm, vars_treino, vars_fn,
                    vars_captura >>

\* ------------------------------------------------ what a run starts from
RegistroA == [cpf |-> CPF_A, nome |-> "Ana", id |-> 1]
RegistroB == [cpf |-> CPF_B, nome |-> "Bruno", id |-> 2]

\* identity tables: none enrolled, one, two in either order of enrollment
TabelasTreino ==
    { << >>, << RegistroA >>, << RegistroA, RegistroB >>,
      << RegistroB, RegistroA >> }

ValidacaoTreino ==
    << [nivel |-> "Nivel 1", pessoas |-> << CPF_A >>],
       [nivel |-> "Nivel 3", pessoas |-> << CPF_B >>] >>

\* what a sidecar left by an earlier run may hold; the empty order is a
\* file that is not JSON or has no "ids_treinamento"
OrdensGravadas == { << >>, << 1, 2 >>, << 2, 1 >> }

InitTreino ==
    /\ ids_treinamento = << >>
    /\ dados_validacao = << >>
    /\ dados_usuario = << >>
    /\ pc = "partida"
    /\ captura_de_video = "fechada"
    /\ liberacoes = 0
    /\ retornos = 0
    /\ motivo = None
    /\ acesso_concedido_tempo = None
    /\ tentativas_reconhecimento = 0
    /\ ultimo_rosto_reconhecido = SemCpf
    /\ frames_lidos = 0
    /\ caixas_restantes = 0
    /\ predicao = SemValor
    /\ nivel = None
    /\ decorrido = 0
    /\ cena = None
    /\ documentos_abertos = 0
    /\ nivel_concedido = None
    /\ frame_id = << "vazio" >>
    /\ seq_id = << "fora" >>
    /\ seq_n = 0
    /\ arq_usuario \in TabelasTreino
    /\ arq_validacao = ValidacaoTreino
    /\ base_usuario = << >>
    /\ base_validacao = << >>
    /\ \E pastas \in SUBSET {1, 2} :
         /\ faces = [t \in pastas |-> MaxFotosTreino]
         /\ usaveis \in [pastas -> 0..MaxFotosTreino]
    /\ modelo_existe \in BOOLEAN
    /\ mapa_existe \in BOOLEAN
    /\ mapa_ids \in IF mapa_existe THEN OrdensGravadas ELSE { << >> }
    /\ modelo_ordem = IF modelo_existe THEN << 1, 2 >> ELSE << >>
    /\ uuids = 2
    /\ ultima_op = None
    /\ entrada = SemEntrada
    /\ treino = SemTreino
    /\ SemChamada
    /\ SemCaptura

\* labels the classifier of a started session answers
RotulosTreino == {0, 1}

\* a run of app.py: the start, and a session in front of one face
NextTreino ==
    \/ Principal
    \/ Reiniciar
    \/ \E ok \in BOOLEAN : AbrirCamera(ok)
    \/ FalhaLeitura
    \/ LerFrame(1)
    \/ \E r \in RotulosTreino :
          ProcessarCaixa(MIN_TAMANHO_ROSTO, r, LIMITE_CONFIANCA - 1)
    \/ FimFrame(FALSE)
    \/ EsperarCongelado("mesma_identidade")
    \/ ConcederAcesso
    \/ FecharDocumentos

SpecTreino == InitTreino /\ [][NextTreino]_vars

\* ====================================================================
\* Functions applied on their own
\* ====================================================================

\* ------------------------------------------------------------------ bounds
\* photos of the directory handed to manter_apenas_fotos_recentes
MaxFotosPoda == 7

\* ---------------------------------- utils_admin.manter_apenas_fotos_recentes
\* os.path.getmtime of a photo: two photos may carry the same time
DatasDeModificacao == {1, 2}

\* the quantities of options 2, 3 and 4 of gerenciar_fotos_usuario
QuantidadesMantidas == {5, 10, 30}

\* the listings os.listdir may give: the k-th photo with its time
ListagensDeFotos ==
    UNION { { [k \in 1..n |-> [foto |-> k, data |-> datas[k]]] :
                datas \in [1..n -> DatasDeModificacao] } :
            n \in 0..MaxFotosPoda }

\* one step of a sort by time, oldest first
RECURSIVE InserirCrescente(_, _)
InserirCrescente(ordenadas, par) ==
    IF ordenadas = << >> THEN << par >>
    ELSE IF Head(ordenadas).data <= par.data
         THEN << Head(ordenadas) >> \o InserirCrescente(Tail(ordenadas), par)
         ELSE << par >> \o ordenadas

\* fotos_com_data.sort(key=lambda x: x[1]): oldest first
RECURSIVE MaisAntigasPrimeiro(_)
MaisAntigasPrimeiro(fotos_com_data) ==
    IF fotos_com_data = << >> THEN << >>
    ELSE InserirCrescente(
             MaisAntigasPrimeiro(SubSeq(fotos_com_data, 1,
                                        Len(fotos_com_data) - 1)),
             fotos_com_data[Len(fotos_com_data)])

\* one step of the sort of line 717: par goes behind every photo that is
\* not older (the sort is stable, photos of one time keep their order)
RECURSIVE InserirPorData(_, _)
InserirPorData(ordenadas, par) ==
    IF ordenadas = << >> THEN << par >>
    ELSE IF Head(ordenadas).data >= par.data
         THEN << Head(ordenadas) >> \o InserirPorData(Tail(ordenadas), par)
         ELSE << par >> \o ordenadas

\* fotos_com_data.sort(key=lambda x: x[1], reverse=True)
RECURSIVE MaisRecentesPrimeiro(_)
MaisRecentesPrimeiro(fotos_com_data) ==
    IF fotos_com_data = << >> THEN << >>
    ELSE InserirPorData(
             MaisRecentesPrimeiro(SubSeq(fotos_com_data, 1,
                                         Len(fotos_com_data) - 1)),
             fotos_com_data[Len(fotos_com_data)])

\* fotos_com_data[:quantidade]
fotos_para_manter(fotos_com_data, quantidade) ==
    SubSeq(MaisRecentesPrimeiro(fotos_com_data), 1,
           Menor(quantidade, Len(fotos_com_data)))

\* fotos_com_data[quantidade:]
fotos_para_remover(fotos_com_data, quantidade) ==
    SubSeq(MaisRecentesPrimeiro(fotos_com_data),
           Menor(quantidade, Len(fotos_com_data)) + 1, Len(fotos_com_data))

Elementos(lista) == { lista[i] : i \in 1..Len(lista) }

\* manter_apenas_fotos_recentes(caminho_pasta, fotos, quantidade, nome):
\* what it removed, what the directory holds afterwards, how many
\* os.remove raised, whether the model was invalidated
PodarFotos ==
    /\ chamada.fn = "manter_apenas_fotos_recentes"
    /\ retorno.fn = "nenhuma"
    /\ IF Len(chamada.fotos) <= chamada.quantidade
       THEN retorno' = [fn |-> "manter_apenas_fotos_recentes",
                        removidas |-> {},
                        restantes |-> Elementos(chamada.fotos),
                        erros |-> 0, invalidou |-> FALSE]
       ELSE \E falhas \in
                 SUBSET Elementos(fotos_para_remover(chamada.fotos,
                                                      chamada.quantidade)) :
              LET removidas ==
                      Elementos(fotos_para_remover(chamada.fotos,
                                                   chamada.quantidade))
                         \ falhas
              IN retorno' = [fn |-> "manter_apenas_fotos_recentes",
                             removidas |-> removidas,
                             restantes |->
                                 Elementos(chamada.fotos) \ removidas,
                             erros |-> Cardinality(falhas),
                             invalidou |-> Cardinality(removidas) > 0]
    /\ UNCHANGED << vars_rec, vars_adm, vars_treino, vars_captura, chamada >>

\* ------------------------------------ document_viewer.mostrar_documentos
\* a level with its own subfolder only
mapa_sem_acumular ==
    << [nivel |-> "Nivel 1", pastas |-> << "nivel_1" >>],
       [nivel |-> "Nivel 2", pastas |-> << "nivel_2" >>],
       [nivel |-> "Nivel 3", pastas |-> << "nivel_3" >>] >>

\* lines 312-317: the subfolders of each level
mapa_niveis ==
    << [nivel |-> "Nivel 1", pastas |-> << "nivel_1" >>],
       [nivel |-> "Nivel 2", pastas |-> << "nivel_1", "nivel_2" >>],
       [nivel |-> "Nivel 3", pastas |-> << "nivel_1", "nivel_2", "nivel_3" >>] >>

\* line 320: mapa_niveis.get(nivel_acesso, [])
pastas_acesso(nivel_acesso) ==
    LET achados == { i \in 1..Len(mapa_niveis) :
                       mapa_niveis[i].nivel = nivel_acesso }
    IN IF achados = {} THEN << >>
       ELSE mapa_niveis[CHOOSE i \in achados : TRUE].pastas

\* what mostrar_documentos may be called with: the levels of the tables,
\* and texts that are no level (a level of validation.json is any key an
\* edited file holds)
NiveisPedidos ==
    { "Nivel 1", "Nivel 2", "Nivel 3",
      "Nivel 4", "Nivel 0", "nivel 1", "Nivel1", "1", "None", "" }

\* lines 297-320: the folders the viewer lists
ListarPastas ==
    /\ chamada.fn = "mostrar_documentos"
    /\ retorno.fn = "nenhuma"
    /\ retorno' = [fn |-> "mostrar_documentos",
                   pastas |-> pastas_acesso(chamada.nivel)]
    /\ UNCHANGED << vars_rec, vars_adm, vars_treino, vars_captura, chamada >>

ChamadasDoVisualizador ==
    { [fn |-> "mostrar_documentos", nivel |-> n] : n \in NiveisPedidos }

\* -------------------- utils_admin.salvar_dados_json, carregar_dados_json
\* A text is the sequence of its characters.  What Python holds: a text, a
\* list, a dict (its pairs in insertion order).
Txt(caracteres) == [tipo |-> "str", txt |-> caracteres]
Lst(itens) == [tipo |-> "list", itens |-> itens]
Dic(pares) == [tipo |-> "dict", pares |-> pares]
Par(chave, valor) == [chave |-> chave, valor |-> valor]

Aspas == "\""
Barra == "\\"
NovaLinha == "\n"

\* one character of a text as json.dump writes it
SemEscapar(ch) == << ch >>

Escapar(ch) ==
    IF ch = Aspas THEN << Barra, Aspas >>
    ELSE IF ch = Barra THEN << Barra, Barra >>
    ELSE IF ch = NovaLinha THEN << Barra, "n" >>
    ELSE << ch >>

RECURSIVE EscreverTexto(_)
EscreverTexto(caracteres) ==
    IF caracteres = << >> THEN << >>
    ELSE Escapar(Head(caracteres)) \o EscreverTexto(Tail(caracteres))

EntreAspas(caracteres) == << Aspas >> \o EscreverTexto(caracteres) \o << Aspas >>

\* indent=2: a new line and two spaces for each level
RECURSIVE Espacos(_)
Espacos(n) == IF n = 0 THEN << >> ELSE << " ", " " >> \o Espacos(n - 1)

Recuo(n) == << NovaLinha >> \o Espacos(n)

\* json.dump(dados, f, indent=2, ensure_ascii=False): the characters written
RECURSIVE json_dump(_, _), EscreverItens(_, _), EscreverPares(_, _)
json_dump(v, n) ==
    IF v.tipo = "str" THEN EntreAspas(v.txt)
    ELSE IF v.tipo = "list"
    THEN IF v.itens = << >> THEN << "[", "]" >>
         ELSE << "[" >> \o EscreverItens(v.itens, n + 1) \o Recuo(n) \o << "]" >>
    ELSE IF v.pares = << >> THEN << "{", "}" >>
         ELSE << "{" >> \o EscreverPares(v.pares, n + 1) \o Recuo(n) \o << "}" >>

EscreverItens(itens, n) ==
    Recuo(n) \o json_dump(Head(itens), n)
       \o (IF Len(itens) = 1 THEN << >>
           ELSE << "," >> \o EscreverItens(Tail(itens), n))

EscreverPares(pares, n) ==
    Recuo(n) \o EntreAspas(Head(pares).chave) \o << ":", " " >>
       \o json_dump(Head(pares).valor, n)
       \o (IF Len(pares) = 1 THEN << >>
           ELSE << "," >> \o EscreverPares(Tail(pares), n))

\* json.load(f): what the characters of a file are read as
Brancos == { " ", NovaLinha }

RECURSIVE PularBrancos(_, _)
PularBrancos(texto, i) ==
    IF i <= Len(texto) /\ texto[i] \in Brancos
    THEN PularBrancos(texto, i + 1)
    ELSE i

\* json.JSONDecodeError; a value read, and the position after it
ErroDeLeitura == [ok |-> FALSE, v |-> Txt(<< >>), i |-> 0]
Lido(v, i) == [ok |-> TRUE, v |-> v, i |-> i]

\* the characters of a text, from the one after the opening quote
RECURSIVE LerTexto(_, _, _)
LerTexto(texto, i, lidos) ==
    IF i > Len(texto) THEN ErroDeLeitura
    ELSE IF texto[i] = Aspas THEN Lido(Txt(lidos), i + 1)
    ELSE IF texto[i] = NovaLinha THEN ErroDeLeitura
    ELSE IF texto[i] = Barra
    THEN IF i + 1 > Len(texto) THEN ErroDeLeitura
         ELSE IF texto[i + 1] \in { Aspas, Barra }
         THEN LerTexto(texto, i + 2, Append(lidos, texto[i + 1]))
         ELSE IF texto[i + 1] = "n"
         THEN LerTexto(texto, i + 2, Append(lidos, NovaLinha))
         ELSE ErroDeLeitura
    ELSE LerTexto(texto, i + 1, Append(lidos, texto[i]))

\* d[chave] = valor while an object is read: a key read twice keeps its
\* place and the later value
DefinirPar(pares, chave, valor) ==
    IF \E k \in 1..Len(pares) : pares[k].chave = chave
    THEN [k \in 1..Len(pares) |->
             IF pares[k].chave = chave THEN Par(chave, valor) ELSE pares[k]]
    ELSE Append(pares, Par(chave, valor))

RECURSIVE LerValor(_, _), LerItens(_, _, _), LerPares(_, _, _)
LerValor(texto, i0) ==
    LET i == PularBrancos(texto, i0)
    IN IF i > Len(texto) THEN ErroDeLeitura
       ELSE IF texto[i] = Aspas THEN LerTexto(texto, i + 1, << >>)
       ELSE IF texto[i] = "["
       THEN LET j == PularBrancos(texto, i + 1)
            IN IF j <= Len(texto) /\ texto[j] = "]"
               THEN Lido(Lst(<< >>), j + 1)
               ELSE LerItens(texto, j, << >>)
       ELSE IF texto[i] = "{"
       THEN LET j == PularBrancos(texto, i + 1)
            IN IF j <= Len(texto) /\ texto[j] = "}"
               THEN Lido(Dic(<< >>), j + 1)
               ELSE LerPares(texto, j, << >>)
       ELSE ErroDeLeitura

LerItens(texto, i, lidos) ==
    LET r == LerValor(texto, i)
        j == PularBrancos(texto, r.i)
    IN IF ~r.ok THEN ErroDeLeitura
       ELSE IF j > Len(texto) THEN ErroDeLeitura
       ELSE IF texto[j] = "," THEN LerItens(texto, j + 1, Append(lidos, r.v))
       ELSE IF texto[j] = "]" THEN Lido(Lst(Append(lidos, r.v)), j + 1)
       ELSE ErroDeLeitura

LerPares(texto, i0, lidos) ==
    LET i == PularBrancos(texto, i0)
        k == LerTexto(texto, i + 1, << >>)
        c == PularBrancos(texto, k.i)
        r == LerValor(texto, c + 1)
        j == PularBrancos(texto, r.i)
        pares == DefinirPar(lidos, k.v.txt, r.v)
    IN IF i > Len(texto) THEN ErroDeLeitura
       ELSE IF texto[i] # Aspas THEN ErroDeLeitura
       ELSE IF ~k.ok THEN ErroDeLeitura
       ELSE IF c > Len(texto) THEN ErroDeLeitura
       ELSE IF texto[c] # ":" THEN ErroDeLeitura
       ELSE IF ~r.ok THEN ErroDeLeitura
       ELSE IF j > Len(texto) THEN ErroDeLeitura
       ELSE IF texto[j] = "," THEN LerPares(texto, j + 1, pares)
       ELSE IF texto[j] = "}" THEN Lido(Dic(pares), j + 1)
       ELSE ErroDeLeitura

json_load(texto) ==
    LET r == LerValor(texto, 1)
    IN IF r.ok /\ PularBrancos(texto, r.i) > Len(texto)
       THEN r
       ELSE ErroDeLeitura

\* a file: whether it exists, and its characters
ArquivoAusente == [existe |-> FALSE, texto |-> << >>]
Arquivo(texto) == [existe |-> TRUE, texto |-> texto]

\* lines 403-413: open(..., 'w') and json.dump; True, or the error box and
\* False.  A write that fails leaves the file as it was (it could not be
\* opened), empty (opened, nothing written) or cut short.
salvar_dados_json(ok, corte) ==
    /\ chamada.fn = "json"
    /\ chamada.salvar
    /\ retorno.fn = "nenhuma"
    /\ LET escrito == json_dump(chamada.dados, 0)
       IN retorno' =
             [fn |-> "salvar_dados_json",
              valor |-> ok,
              erro |-> ~ok,
              arquivo |->
                  IF ok THEN Arquivo(escrito)
                  ELSE IF corte = "intacto" THEN chamada.arquivo
                  ELSE IF corte = "vazio" THEN Arquivo(<< >>)
                  ELSE Arquivo(SubSeq(escrito, 1, Len(escrito) \div 2))]
    /\ UNCHANGED << vars_rec, vars_adm, vars_treino, vars_captura, chamada >>

\* lines 379-387: {} when the path does not exist; json.load; the error box
\* and {} when reading fails
carregar_dados_json ==
    /\ chamada.fn = "json"
    /\ IF chamada.salvar
       THEN retorno.fn = "salvar_dados_json"
       ELSE retorno.fn = "nenhuma"
    /\ LET arquivo == IF chamada.salvar THEN retorno.arquivo
                      ELSE chamada.arquivo
           lido == json_load(arquivo.texto)
       IN retorno' =
             [fn |-> "carregar_dados_json",
              salvou |-> chamada.salvar /\ retorno.valor,
              arquivo |-> arquivo,
              valor |-> IF arquivo.existe /\ lido.ok THEN lido.v
                        ELSE Dic(<< >>),
              erro |-> arquivo.existe /\ ~lido.ok]
    /\ UNCHANGED << vars_rec, vars_adm, vars_treino, vars_captura, chamada >>

\* the tables saved: identity tables (national ID -> name, token) and tier
\* tables (level -> the list of national IDs); a name is what the operator
\* typed
TextoCpfA == << "1", "1", "1", "1", "1", "1", "1", "1", "1", "1", "1" >>
TextoCpfB == << "2", "2", "2", ".", "2", "2", "2", ".", "2", "2", "2", "-",
                "2", "2" >>
NomesSalvos ==
    { << "A", "n", "a" >>,
      << "A", "n", "a", " ", Aspas, "N", "i", Aspas >>,
      << "C", ":", Barra, "n", ",", "{", "}" >> }
TokensSalvos == { << "t", "1" >>, << "t", "2" >> }

Ficha(nome, token) ==
    Dic(<< Par(<< "n", "o", "m", "e" >>, Txt(nome)),
           Par(<< "i", "d" >>, Txt(token)) >>)

TabelasDeIdentidade ==
    { Dic(<< Par(TextoCpfA, Ficha(n, t)) >>) :
         n \in NomesSalvos, t \in TokensSalvos }
    \cup
    { Dic(<< Par(TextoCpfA, Ficha(n1, << "t", "1" >>)),
             Par(TextoCpfB, Ficha(n2, << "t", "2" >>)) >>) :
         n1 \in NomesSalvos, n2 \in NomesSalvos }

Pessoas(cpfs) == Dic(<< Par(<< "p", "e", "s", "s", "o", "a", "s" >>, Lst(cpfs)) >>)

ListasDePessoas ==
    { << >>, << Txt(TextoCpfA) >>, << Txt(TextoCpfA), Txt(TextoCpfB) >>,
      << Txt(TextoCpfB), Txt(TextoCpfB) >> }

TabelasDeNivel ==
    { Dic(<< Par(<< "N", "i", "v", "e", "l", " ", "3" >>, Pessoas(p)) >>) :
         p \in ListasDePessoas }
    \cup
    { Dic(<< Par(<< "N", "i", "v", "e", "l", " ", "3" >>, Pessoas(p)),
             Par(<< "N", "i", "v", "e", "l", " ", "1" >>, Pessoas(q)) >>) :
         p \in ListasDePessoas, q \in ListasDePessoas }

\* what the path holds before the call: nothing, an older table, a file
\* that is no JSON
ArquivosAntes ==
    { ArquivoAusente,
      Arquivo(json_dump(Dic(<< Par(TextoCpfB,
                                   Ficha(<< "B" >>, << "t", "9" >>)) >>), 0)),
      Arquivo(<< "{", Aspas, "1" >>) }

ChamadasJson ==
    { [fn |-> "json", salvar |-> TRUE, dados |-> d, arquivo |-> a] :
         d \in TabelasDeIdentidade \cup TabelasDeNivel, a \in ArquivosAntes }
    \cup
    { [fn |-> "json", salvar |-> FALSE, dados |-> Dic(<< >>), arquivo |-> a] :
         a \in ArquivosAntes }

CortesDeEscrita == { "intacto", "vazio", "metade" }

\* ------------------- app.py obter_imagens_e_rotulos, photo by photo
\* files of one directory of the corpus in a build applied on its own
MaxFotosCorpo == 2

\* a normalized face: the directory and the file it was cut from, which of
\* the detected boxes, the side cv2.resize gave it, and the gain (in
\* hundredths) cv2.convertScaleAbs applied to it, 100 for none
roi_redimensionado(id_unico, arquivo, caixa) ==
    [pasta |-> id_unico, arquivo |-> arquivo, caixa |-> caixa,
     lado |-> 200, alpha |-> 100]

convertScaleAbs(imagem, alpha) == [imagem EXCEPT !.alpha = alpha]

\* utils_admin.aplicar_data_augmentation: the image, a brighter one
\* (alpha 1.05) and one of lower contrast (alpha 0.98)
imagens_aumentadas(imagem) ==
    << imagem, convertScaleAbs(imagem, 105), convertScaleAbs(imagem, 98) >>

\* lines 152-167: what one box appends to faces
amostras_do_rosto(id_unico, arquivo, caixa, aumentar) ==
    IF aumentar
    THEN imagens_aumentadas(roi_redimensionado(id_unico, arquivo, caixa))
    ELSE << roi_redimensionado(id_unico, arquivo, caixa) >>

\* the loop of line 150 without the break of line 170
RECURSIVE amostras_de_cada_rosto(_, _, _, _)
amostras_de_cada_rosto(id_unico, arquivo, caixas, aumentar) ==
    IF caixas = 0 THEN << >>
    ELSE amostras_de_cada_rosto(id_unico, arquivo, caixas - 1, aumentar)
         \o amostras_do_rosto(id_unico, arquivo, caixas, aumentar)

\* the loop of line 150: the first box, then the break of line 170
amostras_dos_rostos(id_unico, arquivo, caixas, aumentar) ==
    IF caixas = 0 THEN << >>
    ELSE amostras_do_rosto(id_unico, arquivo, 1, aumentar)

\* lines 131-170: what one file of a directory appends to faces
amostras_do_arquivo(id_unico, arquivo, foto, aumentar) ==
    IF ~foto.extensao THEN << >>
    ELSE IF ~foto.lida THEN << >>
    ELSE IF ~foto.qualidade THEN << >>
    ELSE amostras_dos_rostos(id_unico, arquivo, foto.caixas, aumentar)

\* the loop of line 130 over the first k files of the directory
RECURSIVE amostras_do_diretorio(_, _, _, _)
amostras_do_diretorio(id_unico, fotos, k, aumentar) ==
    IF k = 0 THEN << >>
    ELSE amostras_do_diretorio(id_unico, fotos, k - 1, aumentar)
         \o amostras_do_arquivo(id_unico, k, fotos[k], aumentar)

\* the loop of line 121 over the first k tokens
RECURSIVE amostras_do_corpo(_, _, _, _)
amostras_do_corpo(ids_unicos, corpo, k, aumentar) ==
    IF k = 0 THEN << >>
    ELSE amostras_do_corpo(ids_unicos, corpo, k - 1, aumentar)
         \o (IF corpo[ids_unicos[k]].isdir
             THEN amostras_do_diretorio(ids_unicos[k],
                                        corpo[ids_unicos[k]].fotos,
                                        Len(corpo[ids_unicos[k]].fotos),
                                        aumentar)
             ELSE << >>)

\* obter_imagens_e_rotulos on a corpus given file by file
ConstruirConjunto ==
    /\ chamada.fn = "obter_imagens_e_rotulos"
    /\ retorno.fn = "nenhuma"
    /\ LET f == amostras_do_corpo(chamada.ids_unicos, chamada.corpo,
                                  Len(chamada.ids_unicos), chamada.aumentar)
       IN retorno' =
             [fn |-> "obter_imagens_e_rotulos",
              nulo |-> f = << >>,
              faces |-> f,
              ids |-> [k \in 1..Len(f) |->
                         mapeamento_ids_para_rotulo(chamada.ids_unicos,
                                                    f[k].pasta)]]
    /\ UNCHANGED << vars_rec, vars_adm, vars_treino, vars_captura, chamada >>

\* a file of a directory: its name ends in .jpg, .png or .jpeg; cv2.imread
\* read it; validar_qualidade_imagem passed it; boxes detectMultiScale found
ArquivosDoCorpo ==
    { [extensao |-> FALSE, lida |-> FALSE, qualidade |-> FALSE, caixas |-> 0],
      [extensao |-> TRUE, lida |-> FALSE, qualidade |-> FALSE, caixas |-> 0],
      [extensao |-> TRUE, lida |-> TRUE, qualidade |-> FALSE, caixas |-> 0] }
    \cup { [extensao |-> TRUE, lida |-> TRUE, qualidade |-> TRUE,
            caixas |-> c] : c \in 0..2 }

ListagensDoCorpo(n) == UNION { [1..k -> ArquivosDoCorpo] : k \in 0..n }

\* the directory of token 1 holds up to MaxFotosCorpo files; the directory
\* of token 2 is missing or holds at most one
CorposDeTreino ==
    { [t \in {1, 2} |-> IF t = 1 THEN [isdir |-> TRUE, fotos |-> f1] ELSE d2] :
        f1 \in ListagensDoCorpo(MaxFotosCorpo),
        d2 \in { [isdir |-> FALSE, fotos |-> << >>] }
               \cup { [isdir |-> TRUE, fotos |-> f2] :
                        f2 \in ListagensDoCorpo(1) } }

ChamadasDeTreino ==
    { [fn |-> "obter_imagens_e_rotulos", ids_unicos |-> o, corpo |-> c,
       aumentar |-> a] :
        o \in { << 1, 2 >>, << 2, 1 >> }, c \in CorposDeTreino,
        a \in BOOLEAN }

\* ------------------------------------------------------ the calls made
ChamadasDePoda ==
    { [fn |-> "manter_apenas_fotos_recentes", fotos |-> f, quantidade |-> q] :
        f \in ListagensDeFotos, q \in QuantidadesMantidas }

InitFuncoes ==
    /\ RecParado
    /\ arq_usuario = << >>
    /\ arq_validacao = << >>
    /\ base_usuario = << >>
    /\ base_validacao = << >>
    /\ faces = << >>
    /\ modelo_existe = FALSE
    /\ mapa_existe = FALSE
    /\ uuids = 0
    /\ ultima_op = None
    /\ entrada = SemEntrada
    /\ usaveis = << >>
    /\ mapa_ids = << >>
    /\ modelo_ordem = << >>
    /\ treino = SemTreino
    /\ SemCaptura
    /\ chamada \in ChamadasDePoda \cup ChamadasDoVisualizador \cup ChamadasJson
                   \cup ChamadasDeTreino
    /\ retorno = [fn |-> "nenhuma"]

NextFuncoes ==
    \/ PodarFotos
    \/ ListarPastas
    \/ \E ok \in BOOLEAN, corte \in CortesDeEscrita :
          salvar_dados_json(ok, corte)
    \/ carregar_dados_json
    \/ ConstruirConjunto

SpecFuncoes == InitFuncoes /\ [][NextFuncoes]_vars

\* ====================================================================
\* The capture sessions (utils_admin.py, document_viewer.py) and the
\* capture device they share with the recognition session
\* ====================================================================

\* ------------------------------------------------------------------ bounds
\* document_viewer's loops are `while True`: the photos of one session
\* are capped here, above utils_admin's max_fotos
MaxFotosCaptura == 11

\* ------------------------------------------ the functions that capture
UA_TIRAR == "utils_admin.tirar_e_salvar_fotos"
DV_TIRAR == "document_viewer.tirar_e_salvar_fotos"
DV_ADICIONAR == "document_viewer.adicionar_mais_fotos"

FuncoesDeCaptura == { UA_TIRAR, DV_TIRAR, DV_ADICIONAR }

\* document_viewer's functions are the commands of the buttons that
\* mostrar_documentos packs for "Nivel 3" (lines 378-387); they run while
\* the viewer that the recognition session opened is on screen.
\* utils_admin's function belongs to the administration panel, a program
\* of its own.
NoVisualizador(m) == m \in { DV_TIRAR, DV_ADICIONAR }

PodeIniciar(m) ==
    IF NoVisualizador(m)
    THEN pc = "documentos" /\ nivel_concedido = "Nivel 3"
    ELSE pc # "fim"

\* utils_admin line 518: only there is the face put to validar_qualidade_imagem
FotoAceita(m, rosto, qualidade) ==
    IF m = UA_TIRAR THEN rosto /\ qualidade ELSE rosto

\* utils_admin line 447: `while fotos_tiradas < max_fotos`;
\* document_viewer lines 77, 201: `while True`
LacoContinua(m, n) ==
    IF m = UA_TIRAR THEN n < MAX_FOTOS ELSE TRUE

\* what the function hands back: adicionar_mais_fotos returns nothing
ValorDevolvido(m, n) ==
    IF m = DV_ADICIONAR THEN -1 ELSE n

\* ------------------------------------------------------------ the steps
\* up to the loop: the directory, then cv2.VideoCapture(0).  Another
\* program opens the device only while the recognition session does not
\* hold it; inside one program nothing but the order of the calls keeps
\* two handles apart.
IniciarCaptura(m, pasta_nova, ok) ==
    /\ pc_captura = "fora"
    /\ PodeIniciar(m)
    /\ (ok /\ ~NoVisualizador(m)) => captura_de_video # "aberta"
    /\ modulo_captura' = m
    /\ fotos_na_sessao' = 0
    /\ fotos_gravadas' = 0
    /\ aviso' = None
    /\ IF m = DV_TIRAR /\ ~pasta_nova
       THEN /\ pc_captura' = "fim"
            /\ saida_captura' = "pasta_existe"
            /\ devolvido' = 0
            /\ UNCHANGED captura
       ELSE IF ~ok
       THEN /\ pc_captura' = "fim"
            /\ saida_captura' = "sem_camera"
            /\ devolvido' = ValorDevolvido(m, 0)
            /\ UNCHANGED captura
       ELSE /\ pc_captura' = "laco"
            /\ saida_captura' = None
            /\ devolvido' = -1
            /\ captura' = "aberta"
    /\ UNCHANGED << vars_rec, vars_adm, vars_treino, vars_fn >>

\* `if not ret: break`
FalhaLeituraCaptura ==
    /\ pc_captura = "laco"
    /\ pc_captura' = "saida"
    /\ saida_captura' = "falha_leitura"
    /\ UNCHANGED << modulo_captura, captura, fotos_na_sessao, fotos_gravadas,
                    aviso, devolvido >>
    /\ UNCHANGED << vars_rec, vars_adm, vars_treino, vars_fn >>

\* key 's' on a frame: detection, (utils_admin) the quality filter,
\* cv2.imwrite whose result is not looked at, the counter, and the test
\* of the loop
PedirFoto(rosto, qualidade, gravou) ==
    LET aceita == FotoAceita(modulo_captura, rosto, qualidade)
        n == IF aceita THEN fotos_na_sessao + 1 ELSE fotos_na_sessao
    IN /\ pc_captura = "laco"
       /\ n <= MaxFotosCaptura
       /\ fotos_na_sessao' = n
       /\ fotos_gravadas' =
              IF aceita /\ gravou THEN fotos_gravadas + 1 ELSE fotos_gravadas
       /\ aviso' = IF ~rosto THEN "sem_rosto"
                   ELSE IF ~aceita THEN "baixa_qualidade"
                   ELSE "capturada"
       /\ IF LacoContinua(modulo_captura, n)
          THEN UNCHANGED << pc_captura, saida_captura >>
          ELSE /\ pc_captura' = "saida"
               /\ saida_captura' = "limite"
       /\ UNCHANGED << modulo_captura, captura, devolvido >>
       /\ UNCHANGED << vars_rec, vars_adm, vars_treino, vars_fn >>

\* key 'q': break
CancelarCaptura ==
    /\ pc_captura = "laco"
    /\ pc_captura' = "saida"
    /\ saida_captura' = "cancelada"
    /\ UNCHANGED << modulo_captura, captura, fotos_na_sessao, fotos_gravadas,
                    aviso, devolvido >>
    /\ UNCHANGED << vars_rec, vars_adm, vars_treino, vars_fn >>

\* after the loop: captura.release(), cv2.destroyAllWindows(), return
SairSemLiberarCaptura ==
    /\ pc_captura = "saida"
    /\ pc_captura' = "fim"
    /\ devolvido' = ValorDevolvido(modulo_captura, fotos_na_sessao)
    /\ UNCHANGED << modulo_captura, captura, fotos_na_sessao, fotos_gravadas,
                    aviso, saida_captura >>
    /\ UNCHANGED << vars_rec, vars_adm, vars_treino, vars_fn >>

LiberarCaptura ==
    /\ pc_captura = "saida"
    /\ captura' = "liberada"
    /\ pc_captura' = "fim"
    /\ devolvido' = ValorDevolvido(modulo_captura, fotos_na_sessao)
    /\ UNCHANGED << modulo_captura, fotos_na_sessao, fotos_gravadas,
                    aviso, saida_captura >>
    /\ UNCHANGED << vars_rec, vars_adm, vars_treino, vars_fn >>

\* the caller goes on; the locals of the call are gone, the handle with
\* them (a VideoCapture that is collected closes its device)
RetomarChamador ==
    /\ pc_captura = "fim"
    /\ modulo_captura' = None
    /\ pc_captura' = "fora"
    /\ captura' = "fechada"
    /\ fotos_na_sessao' = 0
    /\ fotos_gravadas' = 0
    /\ aviso' = None
    /\ devolvido' = -1
    /\ saida_captura' = None
    /\ UNCHANGED << vars_rec, vars_adm, vars_treino, vars_fn >>

\* ------------------------------- the recognition session beside them
\* app.py opens the device only while no other program holds it
AbrirCameraDoApp(ok) ==
    /\ pc_captura # "fim"
    /\ ok => captura # "aberta"
    /\ AbrirCamera(ok)

\* the viewer's window is closed between two commands of its buttons
FecharVisualizador ==
    /\ ~(NoVisualizador(modulo_captura) /\ pc_captura # "fora")
    /\ FecharDocumentos

\* ------------------------------------------------------ specification
\* the capture sessions by themselves: document_viewer.py run as a program
\* (lines 394-397) has its viewer open for "Nivel 3", and no recognition
\* session beside it
InitCaptura ==
    /\ ids_treinamento = << >>
    /\ dados_validacao = << >>
    /\ dados_usuario = << >>
    /\ pc = "documentos"
    /\ captura_de_video = "fechada"
    /\ liberacoes = 0
    /\ retornos = 0
    /\ motivo = None
    /\ acesso_concedido_tempo = None
    /\ tentativas_reconhecimento = 0
    /\ ultimo_rosto_reconhecido = SemCpf
    /\ frames_lidos = 0
    /\ caixas_restantes = 0
    /\ predicao = SemValor
    /\ nivel = None
    /\ decorrido = 0
    /\ cena = None
    /\ documentos_abertos = 1
    /\ nivel_concedido = "Nivel 3"
    /\ frame_id = << "vazio" >>
    /\ seq_id = << "fora" >>
    /\ seq_n = 0
    /\ DiscoDaSessao

NextCaptura ==
    \/ \E m \in FuncoesDeCaptura, pasta_nova, ok \in BOOLEAN :
          IniciarCaptura(m, pasta_nova, ok)
    \/ FalhaLeituraCaptura
    \/ \E rosto, qualidade, gravou \in BOOLEAN :
          PedirFoto(rosto, qualidade, gravou)
    \/ CancelarCaptura
    \/ LiberarCaptura
    \/ RetomarChamador

SpecCaptura == InitCaptura /\ [][NextCaptura]_vars

\* the recognition session of app.py, the viewer it opens, and the capture
\* sessions; one world for the session, in which CPF_B is "Nivel 3"; the
\* files of a capture session are written
InitDispositivo ==
    /\ InitRec
    /\ DiscoDaSessao
    /\ ids_treinamento = << 1, 2, 3, 4 >>
    /\ dados_validacao[2].nivel = "Nivel 3"

NextDispositivo ==
    \/ \E ok \in BOOLEAN : AbrirCameraDoApp(ok)
    \/ FalhaLeitura
    \/ \E n \in 0..MaxCaixas : LerFrame(n)
    \/ \E l \in Lados, r \in Rotulos, c \in Confiancas : ProcessarCaixa(l, r, c)
    \/ \E q \in BOOLEAN : FimFrame(q)
    \/ \E c \in CenasIguais \cup CenasDiferentes : EsperarCongelado(c)
    \/ ConcederAcesso
    \/ FecharVisualizador
    \/ \E m \in FuncoesDeCaptura, pasta_nova, ok \in BOOLEAN :
          IniciarCaptura(m, pasta_nova, ok)
    \/ FalhaLeituraCaptura
    \/ \E rosto, qualidade \in BOOLEAN : PedirFoto(rosto, qualidade, TRUE)
    \/ CancelarCaptura
    \/ LiberarCaptura
    \/ RetomarChamador

SpecDispositivo == InitDispositivo /\ [][NextDispositivo]_vars


\* ====================================================================
\* The document viewer a granted session opens (document_viewer.py
\* mostrar_documentos, called at app.py line 377)
\* ====================================================================

\* tier tables whose grants open the viewer with each level, and with a
\* key that is no level of mapa_niveis
TabelasDoVisualizador ==
    { << [nivel |-> "Nivel 1", pessoas |-> << CPF_A >>],
         [nivel |-> "Nivel 3", pessoas |-> << CPF_B >>] >>,
      << [nivel |-> "Nivel 2", pessoas |-> << CPF_A >>],
         [nivel |-> "Nivel 4", pessoas |-> << CPF_B >>] >> }

\* lines 375-387 with the test of line 375 left out
botoes_para_todos(nivel_acesso) == TRUE

\* line 375: the three administration buttons are packed
botoes_de_administracao(nivel_acesso) ==
    nivel_acesso = "Nivel 3"

\* mostrar_documentos is in its mainloop (line 392)
VisualizadorAberto == pc = "documentos"

\* a file button of lines 366-368: abrir_arquivo (272-295) reads the file
\* into a disabled text field
AbrirArquivo ==
    /\ VisualizadorAberto
    /\ pastas_acesso(nivel_concedido) # << >>
    /\ ultima_op' = "abrir_arquivo"
    /\ UNCHANGED << arq_usuario, arq_validacao, base_usuario, base_validacao,
                    faces, modelo_existe, mapa_existe, uuids, entrada,
                    vars_rec, vars_treino, vars_fn, vars_captura >>

\* the commands of the three buttons; enrollments capped by MaxFichas
Painel_criar ==
    /\ VisualizadorAberto
    /\ botoes_de_administracao(nivel_concedido)
    /\ uuids < MaxFichas
    /\ Fluxo_dv_criar

Painel_adicionar ==
    /\ VisualizadorAberto
    /\ botoes_de_administracao(nivel_concedido)
    /\ Fluxo_dv_adicionar

Painel_excluir ==
    /\ VisualizadorAberto
    /\ botoes_de_administracao(nivel_concedido)
    /\ Fluxo_dv_excluir

\* a session on a loaded model; the tables beside the sources, which the
\* panel works on, are empty, and no photo directory is there yet
InitVisualizador ==
    /\ ids_treinamento = << 1, 2, 3, 4 >>
    /\ dados_validacao \in TabelasDoVisualizador
    /\ dados_usuario = TabelaUsuarios
    /\ pc = "inicio"
    /\ captura_de_video = "fechada"
    /\ liberacoes = 0
    /\ retornos = 0
    /\ motivo = None
    /\ acesso_concedido_tempo = None
    /\ tentativas_reconhecimento = 0
    /\ ultimo_rosto_reconhecido = SemCpf
    /\ frames_lidos = 0
    /\ caixas_restantes = 0
    /\ predicao = SemValor
    /\ nivel = None
    /\ decorrido = 0
    /\ cena = None
    /\ documentos_abertos = 0
    /\ nivel_concedido = None
    /\ frame_id = << "vazio" >>
    /\ seq_id = SemCpf
    /\ seq_n = 0
    /\ arq_usuario = dados_usuario
    /\ arq_validacao = dados_validacao
    /\ base_usuario = << >>
    /\ base_validacao = << >>
    /\ faces = << >>
    /\ modelo_existe = TRUE
    /\ mapa_existe = TRUE
    /\ uuids = 0
    /\ ultima_op = None
    /\ entrada = SemEntrada
    /\ usaveis = << >>
    /\ mapa_ids = ids_treinamento
    /\ modelo_ordem = ids_treinamento
    /\ treino = SemTreino
    /\ SemChamada
    /\ SemCaptura

\* a session in front of one face, the viewer it opens and what the viewer
\* offers
NextVisualizador ==
    \/ \E ok \in BOOLEAN : AbrirCamera(ok)
    \/ FalhaLeitura
    \/ LerFrame(1)
    \/ \E r \in RotulosTreino :
          ProcessarCaixa(MIN_TAMANHO_ROSTO, r, LIMITE_CONFIANCA - 1)
    \/ FimFrame(FALSE)
    \/ EsperarCongelado("mesma_identidade")
    \/ ConcederAcesso
    \/ FecharDocumentos
    \/ AbrirArquivo
    \/ Painel_criar
    \/ Painel_adicionar
    \/ Painel_excluir

SpecVisualizador == InitVisualizador /\ [][NextVisualizador]_vars


\* ====================================================================
\* Deletion and the sessions started after it (utils_admin.py,
\* document_viewer.py, admin_app.py excluir_usuario; app.py __main__)
\* ====================================================================

Registro_dv_excluir ==
    \E cpf \in CpfsDigitados, resposta \in BOOLEAN :
       /\ dv_excluir_usuario(cpf, resposta)
       /\ Registrar("dv_excluir", "", cpf, << >>, resposta)

\* one delete workflow is asked for, while app.py is not running
PodeRevogar == pc = "partida" /\ entrada = SemEntrada

Revogar_ua == PodeRevogar /\ Registro_ua_excluir

Revogar_dv == PodeRevogar /\ Registro_dv_excluir

Revogar_aa == PodeRevogar /\ Registro_aa_excluir

\* the same person enrolled through cadastro_app, in the tables beside the
\* sources, under a token of her own
RegistroNaBase == [cpf |-> CPF_A, nome |-> "Ana", id |-> 3]

\* two identities enrolled through utils_admin, one of them through
\* cadastro_app as well; every directory holds usable photos; the model of
\* an earlier run may be there
InitRevogacao ==
    /\ ids_treinamento = << >>
    /\ dados_validacao = << >>
    /\ dados_usuario = << >>
    /\ pc = "partida"
    /\ captura_de_video = "fechada"
    /\ liberacoes = 0
    /\ retornos = 0
    /\ motivo = None
    /\ acesso_concedido_tempo = None
    /\ tentativas_reconhecimento = 0
    /\ ultimo_rosto_reconhecido = SemCpf
    /\ frames_lidos = 0
    /\ caixas_restantes = 0
    /\ predicao = SemValor
    /\ nivel = None
    /\ decorrido = 0
    /\ cena = None
    /\ documentos_abertos = 0
    /\ nivel_concedido = None
    /\ frame_id = << "vazio" >>
    /\ seq_id = << "fora" >>
    /\ seq_n = 0
    /\ arq_usuario = << RegistroA, RegistroB >>
    /\ arq_validacao = ValidacaoTreino
    /\ base_usuario = << RegistroNaBase >>
    /\ base_validacao = << [nivel |-> "Nivel 1", pessoas |-> << CPF_A >>] >>
    /\ faces = [t \in {1, 2, 3} |-> MaxFotosTreino]
    /\ usaveis = [t \in {1, 2, 3} |-> MaxFotosTreino]
    /\ modelo_existe \in BOOLEAN
    /\ mapa_existe = modelo_existe
    /\ mapa_ids = IF mapa_existe THEN << 1, 2 >> ELSE << >>
    /\ modelo_ordem = IF modelo_existe THEN << 1, 2 >> ELSE << >>
    /\ uuids = 3
    /\ ultima_op = None
    /\ entrada = SemEntrada
    /\ treino = SemTreino
    /\ SemChamada
    /\ SemCaptura

\* deletions, and runs of app.py in front of one face
NextRevogacao ==
    \/ Revogar_ua
    \/ Revogar_dv
    \/ Revogar_aa
    \/ Principal
    \/ Reiniciar
    \/ \E ok \in BOOLEAN : AbrirCamera(ok)
    \/ FalhaLeitura
    \/ LerFrame(1)
    \/ \E r \in RotulosTreino :
          ProcessarCaixa(MIN_TAMANHO_ROSTO, r, LIMITE_CONFIANCA - 1)
    \/ FimFrame(FALSE)
    \/ EsperarCongelado("mesma_identidade")
    \/ ConcederAcesso
    \/ FecharDocumentos

SpecRevogacao == InitRevogacao /\ [][NextRevogacao]_vars


\* ====================================================================
\* Properties of the recognition session (checked under Spec)
\* ====================================================================

Autorizado(cpf) ==
    \E i \in 1..Len(dados_validacao) : Contem(dados_validacao[i].pessoas, cpf)

Cadastrado(cpf) ==
    \E i \in 1..Len(dados_usuario) : dados_usuario[i].cpf = cpf

\* the grant decision has been taken (screen frozen) or the grant emitted
Decidido == pc \in {"congelado", "documentos"} \/ documentos_abertos > 0

\* C1: a grant is decided only on a box whose prediction passed the test of
\* line 317, whose label resolves to a CPF of the identity table that some
\* tier lists, with at least MAX_TENTATIVAS_RECONHECIMENTO consecutive
\* matches; the viewer is opened with the tier the lookup returns for that
\* CPF, and with no tier when there was no grant.
T_C1 ==
    /\ Decidido =>
         /\ predicao # SemValor
         /\ predicao[2] < LIMITE_CONFIANCA
         /\ predicao[1] < Len(ids_treinamento)
         /\ LET cpf == CpfDoId(dados_usuario,
                               Indexar(ids_treinamento, predicao[1]))
            IN /\ cpf # SemCpf
               /\ Cadastrado(cpf)
               /\ Autorizado(cpf)
               /\ ultimo_rosto_reconhecido = cpf
               /\ nivel = obter_nivel_e_status(cpf, dados_validacao)[1]
         /\ tentativas_reconhecimento >= MAX_TENTATIVAS_RECONHECIMENTO
    /\ documentos_abertos > 0 =>
         /\ nivel_concedido = nivel
         /\ captura_de_video = "liberada"
    /\ documentos_abertos = 0 => nivel_concedido = None

W_C1 ==
    /\ documentos_abertos = 1
    /\ nivel_concedido = "Nivel 3"
    /\ ultimo_rosto_reconhecido = CPF_B

\* C2: after a prediction whose distance is LIMITE_CONFIANCA or more, the
\* decision state is reset, nothing was counted and no grant is decided.
T_C2 ==
    (predicao # SemValor /\ predicao[2] >= LIMITE_CONFIANCA) =>
        /\ tentativas_reconhecimento = 0
        /\ ultimo_rosto_reconhecido = SemCpf
        /\ acesso_concedido_tempo = None
        /\ ~Decidido

\* a box at exactly the threshold, with a valid label, was processed
W_C2 ==
    /\ pc = "caixas"
    /\ frames_lidos = 3
    /\ predicao # SemValor
    /\ predicao[2] = LIMITE_CONFIANCA
    /\ predicao[1] = 0

\* C3: between frames, after a run of N frames of one accepted identity
\* (started from the initial state or after a frame without faces) the
\* counter is N and the last identity is that one; after a frame without
\* faces it is 0; after a frame of another identity it is 1.
CX_C3 ==
    (pc = "loop" /\ seq_id # << "fora" >>) =>
        /\ tentativas_reconhecimento = seq_n
        /\ ultimo_rosto_reconhecido = seq_id

\* C4: at most one grant; once it is emitted the camera has been released
\* exactly once, no frame is read or processed any more and the function
\* returns exactly once.
T_C4 ==
    [][ /\ documentos_abertos' <= 1
        /\ retornos' <= 1
        /\ documentos_abertos >= 1 =>
             /\ liberacoes = 1
             /\ captura_de_video = "liberada"
             /\ frames_lidos' = frames_lidos
             /\ predicao' = predicao
             /\ liberacoes' = 1
             /\ documentos_abertos' = 1
             /\ pc' = "fim"
             /\ retornos' = 1 ]_vars

W_C4 ==
    /\ pc = "fim"
    /\ motivo = "acesso"
    /\ documentos_abertos = 1
    /\ liberacoes = 1
    /\ retornos = 1

\* C5: a session ended by the quit key or by a failed read has released the
\* camera (once) and has emitted no grant.
T_C5 ==
    (pc = "fim" /\ motivo \in {"q", "falha_leitura"}) =>
        /\ captura_de_video = "liberada"
        /\ liberacoes = 1
        /\ documentos_abertos = 0
        /\ nivel_concedido = None

\* quit with the debounce at the threshold's edge
W_C5 ==
    /\ pc = "fim"
    /\ motivo = "q"
    /\ ultimo_rosto_reconhecido = CPF_A
    /\ tentativas_reconhecimento = MAX_TENTATIVAS_RECONHECIMENTO - 1

MudouCadastro ==
    \/ arq_usuario' # arq_usuario
    \/ arq_validacao' # arq_validacao
    \/ base_usuario' # base_usuario
    \/ base_validacao' # base_validacao
    \/ faces' # faces

\* C8 as stated -- every workflow step that changes a table or the photo
\* corpus leaves neither the model file nor its sidecar behind.  The
\* workflows of document_viewer, admin_app and cadastro_app never remove
\* them (checked under SpecPainel).
CX_C8 ==
    [][ MudouCadastro => (~modelo_existe' /\ ~mapa_existe') ]_vars

ChamadaDireta == { "invalidar", "invalidar_de_novo", "erro" }

\* C9 -- a call of invalidar_modelo_treinado, whichever of the two files
\* exist, does not raise and leaves neither file and nothing else changed;
\* a call that follows another call changes nothing at all.
T_C9 ==
    [][ ultima_op' \in ChamadaDireta =>
          /\ ultima_op' # "erro"
          /\ ~modelo_existe'
          /\ ~mapa_existe'
          /\ UNCHANGED << arq_usuario, arq_validacao, base_usuario,
                          base_validacao, faces, uuids >>
          /\ (ultima_op \in ChamadaDireta =>
                UNCHANGED << modelo_existe, mapa_existe >>) ]_vars

\* C9 witness -- a second call in a row has returned, with an identity
\* enrolled.
W_C9 ==
    /\ ultima_op = "invalidar_de_novo"
    /\ ~modelo_existe
    /\ ~mapa_existe
    /\ arq_usuario # << >>

\* occurrences of cpf in the member lists of the tiers 1..k of dv
RECURSIVE Ocorrencias(_, _, _)
Ocorrencias(dv, cpf, k) ==
    IF k = 0 THEN 0
    ELSE Ocorrencias(dv, cpf, k - 1)
         + Cardinality({ j \in 1..Len(dv[k].pessoas) : dv[k].pessoas[j] = cpf })

\* C10 as stated -- every national ID of the identity table is listed at
\* most once over all tiers.  An enrollment whose second save fails leaves
\* the ID listed without an identity record, and enrolling it again lists
\* it a second time (checked under SpecAdmin).
CX_C10 ==
    \A i \in 1..Len(arq_usuario) :
        Ocorrencias(arq_validacao, arq_usuario[i].cpf, Len(arq_validacao)) <= 1

\* ====================================================================
\* Properties of enrollment and deletion
\* (checked under SpecRegistro, SpecPainel, SpecAdmin, SpecExclusao)
\* ====================================================================

\* the tier list named nv of dv lists cpf
NaLista(dv, nv, cpf) ==
    \E i \in 1..Len(dv) : dv[i].nivel = nv /\ Contem(dv[i].pessoas, cpf)

\* C11 as stated -- after an enrollment through utils_admin that added the
\* national ID to the identity table, the tier list of the level typed
\* lists it and obter_nivel_e_status returns that level, authorized.  An
\* ID left in another tier list by an earlier enrollment whose second save
\* failed is found there first (checked under SpecRegistro).
CX_C11 ==
    [][ (entrada'.op = "ua_criar" /\ arq_usuario' # arq_usuario) =>
          LET n == LimparCpf(entrada'.cpf)
              t == NivelFormatado(entrada'.nivel)
          IN /\ TemChave(arq_usuario', n)
             /\ NaLista(arq_validacao', t, n)
             /\ obter_nivel_e_status(n, arq_validacao') = << t, "Autorizado" >>
      ]_vars

\* C12 as stated -- a national ID that is already enrolled, compared on its
\* normalised 11-digit form, is rejected: no step adds an identity record
\* whose normalised ID is the normalised ID of a record already in the
\* table.  document_viewer and cadastro_app compare and store the ID as
\* typed (checked under SpecPainel).
CX_C12 ==
    [][ \A i \in 1..Len(base_usuario') :
          ~TemChave(base_usuario, base_usuario'[i].cpf) =>
             \A j \in 1..Len(base_usuario) :
                LimparCpf(base_usuario[j].cpf) # LimparCpf(base_usuario'[i].cpf)
      ]_vars

\* C13 as stated -- when the capture session of an enrollment returns 0,
\* the photo directory created for the new token no longer exists: a step
\* that draws a new token and adds no identity record leaves no directory
\* of that token.  document_viewer and cadastro_app return without
\* removing it (checked under SpecPainel).
CX_C13 ==
    [][ (uuids' # uuids /\ base_usuario' = base_usuario
                        /\ base_validacao' = base_validacao) =>
           uuids' \notin DOMAIN faces'
      ]_vars

\* C14 as stated -- after a confirmed delete through utils_admin whose two
\* saves wrote their tables, the national ID is in neither table: no tier
\* list names it and obter_nivel_e_status does not authorize it.
\* excluir_usuario stops at the first tier that lists the ID and removes
\* one occurrence (checked under SpecRegistro).
CX_C14 ==
    [][ ( /\ entrada'.op = "ua_excluir"
          /\ arq_usuario' # arq_usuario
          /\ arq_validacao' # arq_validacao ) =>
          /\ ~TemChave(arq_usuario', entrada'.cpf)
          /\ Ocorrencias(arq_validacao', entrada'.cpf, Len(arq_validacao')) = 0
          /\ obter_nivel_e_status(entrada'.cpf, arq_validacao')[2]
                = "Nao Autorizado"
      ]_vars

\* what a delete may touch: both families' tables, the photo corpus, the
\* model files, the tokens drawn
Persistido ==
    << arq_usuario, arq_validacao, base_usuario, base_validacao, faces,
       modelo_existe, mapa_existe, uuids >>

\* C15 -- a delete request for a national ID that is not in the identity
\* table of the module asked, or whose confirmation is declined, changes
\* no table, no photo directory and no model file (checked under
\* SpecExclusao).
T_C15 ==
    [][ ( \/ /\ entrada'.op = "ua_excluir"
             /\ ~TemChave(arq_usuario, entrada'.cpf) \/ ~entrada'.resposta
          \/ /\ entrada'.op = "aa_excluir"
             /\ ~TemChave(base_usuario, entrada'.cpf) \/ ~entrada'.resposta )
        => UNCHANGED Persistido
      ]_vars

\* a declined delete of an enrolled identity that has photos
W_C15 ==
    /\ entrada.op = "ua_excluir"
    /\ ~entrada.resposta
    /\ TemChave(arq_usuario, entrada.cpf)
    /\ FotosDe(IdDe(arq_usuario, entrada.cpf)) > 0

\* C16 as stated -- in a confirmed delete of an enrolled identity the model
\* invalidation is attempted whatever happens to the steps before it:
\* neither model file is left.  shutil.rmtree raising takes the workflow
\* to its except clause, past every later step (checked under SpecFalha).
CX_C16 ==
    [][ ( /\ entrada'.op = "ua_excluir"
          /\ entrada'.resposta
          /\ TemChave(arq_usuario, entrada'.cpf) ) =>
          (~modelo_existe' /\ ~mapa_existe')
      ]_vars

\* ====================================================================
\* Properties of training and of the start of a session
\* (checked under SpecTreino)
\* ====================================================================

\* the start of a run in which the training pass ran and a model came out
TreinouAgora ==
    /\ pc = "partida"
    /\ arq_usuario # << >>
    /\ ~(modelo_existe /\ mapa_existe)
    /\ pc' = "inicio"

\* C17 as stated -- whenever the model file and the sidecar both exist
\* after a training pass, the sidecar holds the label order that pass
\* trained the model with.  The training pass does not look at whether the
\* sidecar was written, and a sidecar of an earlier training may be there.
CX_C17 ==
    [][ (TreinouAgora /\ modelo_existe' /\ mapa_existe') =>
           (mapa_ids' = ids_treinamento' /\ modelo_ordem' = ids_treinamento')
      ]_vars

\* no directory of an identity of the table has a usable photo
SemAmostras ==
    \A i \in 1..Len(arq_usuario) :
       ~TemPasta(arq_usuario[i].id) \/ UsaveisDe(arq_usuario[i].id) = 0

\* what a run starts from gives no usable model: nobody enrolled, both
\* files there and no order in the sidecar, or a training pass to run and
\* no sample to collect
SemModeloUsavel ==
    \/ arq_usuario = << >>
    \/ modelo_existe /\ mapa_existe /\ mapa_ids = << >>
    \/ ~(modelo_existe /\ mapa_existe) /\ SemAmostras

\* the run ended before reconhecer_faces_webcam was called
EncerradoNaPartida == motivo \in {"sem_usuarios", "sem_modelo"}

\* C18 -- a run that starts without a usable model ends at its start, and
\* a run ended at its start never entered the recognition loop: no frame
\* was read, the camera was never opened, nothing was granted and no
\* document panel was opened.
T_C18 ==
    [][ /\ (pc = "partida" /\ SemModeloUsavel) => EncerradoNaPartida'
        /\ EncerradoNaPartida' =>
             /\ pc' = "fim"
             /\ captura_de_video' = "fechada"
             /\ frames_lidos' = 0
             /\ liberacoes' = 0
             /\ acesso_concedido_tempo' = None
             /\ nivel_concedido' = None
             /\ documentos_abertos' = 0
        /\ (pc = "fim" /\ EncerradoNaPartida) => pc' = "partida"
      ]_vars

\* both files were there, the sidecar gave no order, and the run ended
W_C18 ==
    /\ pc = "fim"
    /\ motivo = "sem_modelo"
    /\ arq_usuario # << >>
    /\ ~SemAmostras
    /\ modelo_existe /\ mapa_existe /\ mapa_ids = << >>

\* samples a build over ids_unicos collects, counted on the corpus
RECURSIVE TotalDeAmostras(_, _)
TotalDeAmostras(ids_unicos, k) ==
    IF k = 0 THEN 0
    ELSE TotalDeAmostras(ids_unicos, k - 1)
         + (IF TemPasta(ids_unicos[k])
            THEN (IF USAR_DATA_AUGMENTATION THEN 3 ELSE 1)
                 * UsaveisDe(ids_unicos[k])
            ELSE 0)

\* C19 -- the build of the training set returns (None, None, None) exactly
\* when it collected no sample, over no identity in particular; and the
\* start of a run whose build returned that writes neither the model file
\* nor the sidecar.
T_C19 ==
    [][ /\ obter_imagens_e_rotulos(<< >>).nulo
        /\ (pc = "partida" /\ treino'.feito /\ ~(modelo_existe /\ mapa_existe)
                           /\ arq_usuario # << >>) =>
             LET ids_unicos == IdsUnicos(arq_usuario)
             IN /\ treino' = obter_imagens_e_rotulos(ids_unicos)
                /\ treino'.nulo <=>
                      TotalDeAmostras(ids_unicos, Len(ids_unicos)) = 0
                /\ ~treino'.nulo =>
                      Len(treino'.faces) =
                         TotalDeAmostras(ids_unicos, Len(ids_unicos))
                /\ treino'.nulo =>
                      /\ UNCHANGED ArquivosDoModelo
                      /\ pc' = "fim"
      ]_vars

\* a build over enrolled identities that have photos, none of them usable,
\* returned no data and no file was written
W_C19 ==
    /\ treino.feito /\ treino.nulo
    /\ arq_usuario # << >>
    /\ \E i \in 1..Len(arq_usuario) : FotosDe(arq_usuario[i].id) > 0
    /\ ~modelo_existe /\ ~mapa_existe

\* C20 -- in a build that returned data, the label order is the list of
\* tokens of the identity table in its order; the token at position i of
\* it (counting from 0) has label i, whether or not it gave samples; every
\* sample carries the label at which the label order has the directory the
\* sample came from; and a later build over the same table and corpus
\* returns the same label order.
T_C20 ==
    [][ (pc = "partida" /\ ~(modelo_existe /\ mapa_existe)
                        /\ treino'.feito /\ ~treino'.nulo) =>
          LET ids_unicos == IdsUnicos(arq_usuario)
              ordem == treino'.ids_treinamento
          IN /\ ordem = ids_unicos
             /\ Len(treino'.ids) = Len(treino'.faces)
             /\ \A k \in 1..Len(treino'.faces) :
                   /\ treino'.ids[k] \in 0..(Len(ordem) - 1)
                   /\ ordem[treino'.ids[k] + 1] = treino'.faces[k]
                   /\ \A i \in 1..Len(ids_unicos) :
                         ids_unicos[i] = treino'.faces[k] =>
                            treino'.ids[k] = i - 1
             /\ (treino.feito /\ ~treino.nulo) =>
                   treino'.ids_treinamento = treino.ids_treinamento
      ]_vars

\* a build over two identities of which only the second has usable
\* photos: every sample has label 1, and the first token keeps position 0
W_C20 ==
    /\ treino.feito /\ ~treino.nulo
    /\ Len(treino.ids_treinamento) = 2
    /\ treino.faces # << >>
    /\ \A k \in 1..Len(treino.ids) : treino.ids[k] = 1
    /\ treino.ids_treinamento[1] = arq_usuario[1].id

\* ====================================================================
\* Properties of functions applied on their own
\* (checked under SpecFuncoes)
\* ====================================================================

\* C21 -- manter_apenas_fotos_recentes removes nothing when the directory
\* has at most `quantidade` photos; otherwise, when no os.remove raised,
\* exactly `quantidade` photos remain and no photo that remains is older
\* than a photo that was removed.
T_C21 ==
    (retorno.fn = "manter_apenas_fotos_recentes") =>
       /\ Len(chamada.fotos) <= chamada.quantidade =>
             /\ retorno.removidas = {}
             /\ retorno.restantes = Elementos(chamada.fotos)
       /\ (Len(chamada.fotos) > chamada.quantidade /\ retorno.erros = 0) =>
             /\ Cardinality(retorno.restantes) = chamada.quantidade
             /\ retorno.restantes \cup retorno.removidas
                   = Elementos(chamada.fotos)
             /\ \A m \in retorno.restantes, r \in retorno.removidas :
                   m.data >= r.data

\* seven photos of two times pruned to five: photos of the older time are
\* on both sides of the cut
W_C21 ==
    /\ retorno.fn = "manter_apenas_fotos_recentes"
    /\ retorno.erros = 0
    /\ Cardinality(retorno.removidas) = 2
    /\ \E m \in retorno.restantes, r \in retorno.removidas : m.data = r.data
    /\ \E m \in retorno.restantes, r \in retorno.removidas : m.data > r.data

\* ====================================================================
\* Properties of the capture sessions (checked under SpecCaptura and
\* SpecDispositivo)
\* ====================================================================

\* C22 as stated -- in a capture session of tirar_e_salvar_fotos the
\* counter of accepted photos never exceeds max_count (10).  utils_admin's
\* loop is `while fotos_tiradas < max_fotos`; document_viewer's is
\* `while True` and counts on (checked under SpecCaptura).
CX_C22 ==
    (modulo_captura \in { UA_TIRAR, DV_TIRAR }) => fotos_na_sessao <= MAX_FOTOS

\* C23 -- the recognition session and a capture session never hold the
\* capture device together; a recognition session that has opened the
\* viewer or has ended does not hold the device; a capture session that has
\* returned does not hold it; and while a capture session started from the
\* viewer runs, the recognition session that opened the viewer has released
\* the device (checked under SpecDispositivo).
T_C23 ==
    /\ ~(captura_de_video = "aberta" /\ captura = "aberta")
    /\ (pc \in { "documentos", "fim" }) => captura_de_video # "aberta"
    /\ (pc_captura = "fim") => captura # "aberta"
    /\ (NoVisualizador(modulo_captura) /\ pc_captura \in { "laco", "saida" })
          => captura_de_video = "liberada"

\* a capture session started from the viewer holds the device, with a photo
\* taken, after the grant of a recognition session
W_C23 ==
    /\ pc = "documentos"
    /\ captura_de_video = "liberada"
    /\ modulo_captura = DV_ADICIONAR
    /\ captura = "aberta"
    /\ fotos_na_sessao = 1

\* C24 -- the folders listed for a level: each of the three levels has its
\* own folder and every folder of every lower level, and a text that is
\* none of the three levels has no folder (checked under SpecFuncoes).
T_C24 ==
    (retorno.fn = "mostrar_documentos") =>
       LET k == CHOOSE i \in 0..3 :
                   \/ i > 0 /\ Niveis[i] = chamada.nivel
                   \/ i = 0 /\ \A j \in 1..3 : Niveis[j] # chamada.nivel
           PastaDe == << "nivel_1", "nivel_2", "nivel_3" >>
       IN IF k = 0
          THEN retorno.pastas = << >>
          ELSE /\ PastaDe[k] \in Elementos(retorno.pastas)
               /\ \A j \in 1..k :
                     Elementos(pastas_acesso(Niveis[j]))
                        \subseteq Elementos(retorno.pastas)
               /\ \A j \in 1..k : PastaDe[j] \in Elementos(retorno.pastas)

\* the viewer of "Nivel 3" lists the folder of "Nivel 1"
W_C24 ==
    /\ retorno.fn = "mostrar_documentos"
    /\ chamada.nivel = "Nivel 3"
    /\ "nivel_1" \in Elementos(retorno.pastas)
    /\ "nivel_3" \in Elementos(retorno.pastas)

\* ====================================================================
\* Properties of the enrollment workflows, continued (checked under
\* SpecPainel)
\* ====================================================================

\* C25 as stated -- every national ID written by an enrollment, as a key of
\* the identity table and as a member of a tier list, is a text of exactly
\* 11 digits.  document_viewer and cadastro_app validate the stripped text
\* and write the text as typed (checked under SpecPainel).
CX_C25 ==
    /\ \A i \in 1..Len(base_usuario) : CpfValido(base_usuario[i].cpf)
    /\ \A i \in 1..Len(base_validacao) :
          \A j \in 1..Len(base_validacao[i].pessoas) :
             CpfValido(base_validacao[i].pessoas[j])

\* ====================================================================
\* Properties of functions applied on their own, continued (checked under
\* SpecFuncoes)
\* ====================================================================

\* C26 -- a table that salvar_dados_json wrote is what carregar_dados_json
\* then returns from the same path: the same keys in the same order, the
\* same nested values, and no error box; and carregar_dados_json of a path
\* at which no file exists returns the empty table without an error box
\* (checked under SpecFuncoes).
T_C26 ==
    (retorno.fn = "carregar_dados_json") =>
       /\ retorno.salvou =>
             /\ retorno.valor = chamada.dados
             /\ ~retorno.erro
       /\ ~retorno.arquivo.existe =>
             /\ retorno.valor = Dic(<< >>)
             /\ ~retorno.erro

\* a table of two records, one name with quotation marks in it and one
\* with a backslash, written over an older table and read back
W_C26 ==
    /\ retorno.fn = "carregar_dados_json"
    /\ retorno.salvou
    /\ chamada.arquivo.existe
    /\ Len(chamada.dados.pares) = 2
    /\ \A k \in 1..2 : chamada.dados.pares[k].valor.pares[1].valor.tipo = "str"
    /\ \E k \in 1..2 :
          Aspas \in Elementos(chamada.dados.pares[k].valor.pares[1].valor.txt)
    /\ \E k \in 1..2 :
          Barra \in Elementos(chamada.dados.pares[k].valor.pares[1].valor.txt)
    /\ retorno.valor = chamada.dados

\* ====================================================================
\* Properties of the recognition session, continued (checked under Spec)
\* ====================================================================

DecisaoInicial ==
    /\ ultimo_rosto_reconhecido = SemCpf
    /\ tentativas_reconhecimento = 0
    /\ acesso_concedido_tempo = None

\* the box processed last failed the test of line 317
UltimaCaixaRejeitada ==
    /\ predicao # SemValor
    /\ \/ predicao[2] >= LIMITE_CONFIANCA
       \/ predicao[1] >= Len(ids_treinamento)

\* the test of line 317 let the box processed last through
UltimaCaixaAceita ==
    /\ predicao # SemValor
    /\ predicao[2] < LIMITE_CONFIANCA
    /\ predicao[1] < Len(ids_treinamento)

\* the token the label of the box processed last was translated to
TokenDaUltimaCaixa == Indexar(ids_treinamento, predicao[1])

\* C27 -- after a frame in which no face is detected, and after a box whose
\* prediction fails the test of line 317 (distance not below the threshold,
\* or label not below the length of the label order), the three variables
\* of the decision are at their initial values, and stay there until a box
\* passes the test.
T_C27 ==
    /\ (frame_id = << "sem_rosto" >>) => DecisaoInicial
    /\ UltimaCaixaRejeitada => DecisaoInicial

\* a box with a good distance and a label past the end of the label order
\* was rejected in the third frame
W_C27 ==
    /\ pc = "caixas"
    /\ frames_lidos = 3
    /\ predicao # SemValor
    /\ predicao[1] = Len(ids_treinamento)
    /\ predicao[2] < LIMITE_CONFIANCA
    /\ DecisaoInicial

\* C28 as stated -- after a box that passed the test and resolved to a
\* national ID of the identity table that no tier lists, the three
\* variables of the decision are at their initial values.  Lines 325-329
\* count the match whatever the status is.
CX_C28 ==
    (UltimaCaixaAceita /\ predicao[1] >= 0) =>
       LET cpf == CpfDoId(dados_usuario, TokenDaUltimaCaixa)
       IN (cpf # SemCpf /\ ~Autorizado(cpf)) => DecisaoInicial

\* C29 as stated -- after a box that passed the test and whose label is
\* translated to a token no record of the identity table carries, the three
\* variables of the decision are at their initial values.  Lines 384-386
\* leave ultimo_rosto_reconhecido as it was.
CX_C29 ==
    ( /\ UltimaCaixaAceita
      /\ predicao[1] >= 0
      /\ CpfDoId(dados_usuario, TokenDaUltimaCaixa) = SemCpf ) => DecisaoInicial

\* C30 as stated -- a box whose label is negative is rejected whatever its
\* distance: after it the three variables of the decision are at their
\* initial values.  Line 317 tests only rotulo_id < len(ids_treinamento) and
\* line 319 indexes the label order from its end.
CX_C30 ==
    (predicao # SemValor /\ predicao[1] < 0) => DecisaoInicial

\* C31 as stated -- in a frame with several boxes only the first is acted
\* upon: once a box of the frame has been predicted, no later step of that
\* frame changes ultimo_rosto_reconhecido, tentativas_reconhecimento or
\* acesso_concedido_tempo, and none freezes the screen for a grant.  The
\* loop of line 307 runs lines 310-393 for every box.
CX_C31 ==
    [][ (pc = "caixas" /\ frame_id \notin { << "vazio" >>, << "sem_rosto" >> })
           => /\ ultimo_rosto_reconhecido' = ultimo_rosto_reconhecido
              /\ tentativas_reconhecimento' = tentativas_reconhecimento
              /\ acesso_concedido_tempo' = acesso_concedido_tempo
              /\ pc' # "congelado"
      ]_vars

\* ====================================================================
\* Properties of the workflows that change nothing (checked under
\* SpecFotos)
\* ====================================================================

\* photos in the directory of id_unico in the corpus f
FotosEm(f, id_unico) == IF id_unico \in DOMAIN f THEN f[id_unico] ELSE 0

MesmasFotos ==
    \A id_unico \in 1..(MaxCadastros + 1) :
       FotosEm(faces', id_unico) = FotosEm(faces, id_unico)

\* C32 -- an add-photos workflow whose session adds no photo, a prune that
\* removes no file (nothing beyond keep_n, or every removal failed), and an
\* add-photos, prune or delete request for a national ID that is not in the
\* identity table leave the model file and the sidecar as they were.
T_C32 ==
    [][ ( \/ /\ entrada'.op \in { "ua_adicionar", "ua_gerenciar" }
             /\ MesmasFotos
          \/ /\ entrada'.op \in { "ua_adicionar", "ua_gerenciar", "ua_excluir" }
             /\ ~TemChave(arq_usuario, entrada'.cpf) )
        => UNCHANGED << modelo_existe, mapa_existe >>
      ]_vars

\* C32 witness -- a prune to 5 photos of an enrolled identity with more
\* than 5 has returned with every photo still there and both model files
\* in place.
W_C32 ==
    /\ entrada.op = "ua_gerenciar"
    /\ entrada.nivel = << "4" >>
    /\ TemChave(arq_usuario, entrada.cpf)
    /\ FotosDe(IdDe(arq_usuario, entrada.cpf)) > 5
    /\ modelo_existe
    /\ mapa_existe

\* ====================================================================
\* Properties of the training set, photo by photo (checked under
\* SpecFuncoes)
\* ====================================================================

\* the files of the corpus of the call that give samples: image files that
\* were read, passed the quality filter and show at least one face, in the
\* directory of a token of the table
Contribuintes ==
    { p \in {1, 2} \X (1..MaxFotosCorpo) :
        /\ chamada.corpo[p[1]].isdir
        /\ p[2] <= Len(chamada.corpo[p[1]].fotos)
        /\ chamada.corpo[p[1]].fotos[p[2]].extensao
        /\ chamada.corpo[p[1]].fotos[p[2]].lida
        /\ chamada.corpo[p[1]].fotos[p[2]].qualidade
        /\ chamada.corpo[p[1]].fotos[p[2]].caixas >= 1 }

\* the samples of the build that came from file p, in their order
AmostrasDe(p) ==
    SelectSeq(retorno.faces,
              LAMBDA a : a.pasta = p[1] /\ a.arquivo = p[2])

ComprimentoFixo == IF chamada.aumentar THEN 3 ELSE 1

\* C33 -- in a build of the training set a file gives samples only if it
\* is a readable photo that passes the quality filter and shows a face;
\* every sample is cut from the first box; a file that gives samples gives
\* the unmodified normalized face and then, with augmentation, its two
\* variants, 3 samples, or 1 without; every sample has the label of the
\* token of its directory; and the samples are the contributing files
\* times that length.
T_C33 ==
    (retorno.fn = "obter_imagens_e_rotulos") =>
       /\ Len(retorno.faces) = Cardinality(Contribuintes) * ComprimentoFixo
       /\ Len(retorno.ids) = Len(retorno.faces)
       /\ retorno.nulo <=> Contribuintes = {}
       /\ \A k \in 1..Len(retorno.faces) :
             /\ << retorno.faces[k].pasta, retorno.faces[k].arquivo >>
                   \in Contribuintes
             /\ retorno.faces[k].caixa = 1
             /\ retorno.faces[k].lado = 200
             /\ Indexar(chamada.ids_unicos, retorno.ids[k])
                   = retorno.faces[k].pasta
       /\ \A p \in Contribuintes :
             /\ Len(AmostrasDe(p)) = ComprimentoFixo
             /\ AmostrasDe(p)[1] = roi_redimensionado(p[1], p[2], 1)
             /\ \A i \in 2..ComprimentoFixo :
                   /\ AmostrasDe(p)[i].alpha # 100
                   /\ convertScaleAbs(AmostrasDe(p)[i], 100) = AmostrasDe(p)[1]

\* C33 witness -- a build with augmentation over both directories: a photo
\* with two faces and an unreadable file in one, a photo showing a face in
\* the other; six samples came out.
W_C33 ==
    /\ retorno.fn = "obter_imagens_e_rotulos"
    /\ chamada.aumentar
    /\ Cardinality(Contribuintes) = 2
    /\ Len(retorno.faces) = 6
    /\ \E j \in 1..Len(chamada.corpo[1].fotos) :
          chamada.corpo[1].fotos[j].caixas = 2
    /\ \E j \in 1..Len(chamada.corpo[1].fotos) :
          ~chamada.corpo[1].fotos[j].lida
    /\ chamada.corpo[2].isdir
    /\ retorno.ids[1] # retorno.ids[6]

\* ====================================================================
\* Properties of the document viewer (checked under SpecVisualizador)
\* ====================================================================

\* C34 -- while a session runs, the identity tables, the tier tables and
\* the photo corpus change only in a step taken with the viewer open for
\* "Nivel 3": a viewer opened for "Nivel 1", "Nivel 2" or a text that is no
\* level offers nothing that changes them.
T_C34 ==
    [][ ~(UNCHANGED << arq_usuario, arq_validacao, base_usuario,
                       base_validacao, faces >>)
          => (VisualizadorAberto /\ nivel_concedido = "Nivel 3") ]_vars

\* C34 witness -- the viewer was opened by a grant for "Nivel 2", a
\* document was opened from it, and no table and no directory has changed.
W_C34 ==
    /\ VisualizadorAberto
    /\ nivel_concedido = "Nivel 2"
    /\ ultima_op = "abrir_arquivo"
    /\ arq_usuario = dados_usuario
    /\ arq_validacao = dados_validacao
    /\ base_usuario = << >>
    /\ base_validacao = << >>
    /\ faces = << >>

\* the viewer was opened for a tier that is no level of mapa_niveis
VisualizadorSemNivel ==
    /\ VisualizadorAberto
    /\ nivel_concedido = "Nivel 4"

\* an enrollment was made from the panel of a viewer opened for "Nivel 3"
CadastroPeloPainel ==
    /\ VisualizadorAberto
    /\ nivel_concedido = "Nivel 3"
    /\ base_usuario # << >>

\* ====================================================================
\* Properties of deletion and the sessions after it (checked under
\* SpecRevogacao)
\* ====================================================================

\* the last delete workflow was confirmed and took its national ID out of
\* the identity table of its module
Revogado ==
    /\ entrada.resposta
    /\ entrada.cpf \in { CPF_A, CPF_B }
    /\ \/ entrada.op = "ua_excluir" /\ ~TemChave(arq_usuario, entrada.cpf)
       \/ /\ entrada.op \in { "dv_excluir", "aa_excluir" }
          /\ ~TemChave(base_usuario, entrada.cpf)

\* C35 as stated -- after a confirmed delete workflow for a national ID has
\* completed, through any of the delete implementations, no session started
\* afterwards grants that national ID, and the tables such a session loaded
\* do not hold it.  The deletes of document_viewer and admin_app work on the
\* tables beside the sources and leave the model in place; app.py loads the
\* tables of Usuarios_Cadastrados.
CX_C35 ==
    (Revogado /\ pc \notin { "partida", "fim" }) =>
       /\ ~TemChave(dados_usuario, entrada.cpf)
       /\ ~(pc = "documentos" /\ ultimo_rosto_reconhecido = entrada.cpf)

\* the same for the delete of utils_admin alone
RevogadoPorUtilsAdmin ==
    (Revogado /\ entrada.op = "ua_excluir" /\ pc \notin { "partida", "fim" }) =>
       /\ ~TemChave(dados_usuario, entrada.cpf)
       /\ ~(pc = "documentos" /\ ultimo_rosto_reconhecido = entrada.cpf)

\* a session granted the national ID that the viewer's delete had removed
ConcedidoAposExcluir ==
    /\ Revogado
    /\ entrada.op = "dv_excluir"
    /\ pc = "documentos"
    /\ ultimo_rosto_reconhecido = entrada.cpf

\* ====================================================================
\* Properties of the recognition session, concluded (checked under Spec)
\* ====================================================================

\* C36 -- in every state of a session, between frames and within them,
\* tentativas_reconhecimento is 0 whenever ultimo_rosto_reconhecido is None,
\* and it is never negative.
T_C36 ==
    /\ ultimo_rosto_reconhecido = SemCpf => tentativas_reconhecimento = 0
    /\ tentativas_reconhecimento >= 0

\* C36 witness -- between frames: the last box of the frame just processed
\* passed the test for a token no record carries, which zeroes the counter
\* and leaves the identity as it was, None.
W_C36 ==
    /\ pc = "loop"
    /\ frames_lidos >= 2
    /\ frame_id = << "misto" >>
    /\ UltimaCaixaAceita
    /\ CpfDoId(dados_usuario, TokenDaUltimaCaixa) = SemCpf
    /\ ultimo_rosto_reconhecido = SemCpf
    /\ tentativas_reconhecimento = 0

\* ====================================================================
\* Properties of the two tables of utils_admin (checked under SpecRegistro)
\* ====================================================================

\* some tier list of dv lists cpf
Listado(dv, cpf) == \E i \in 1..Len(dv) : Contem(dv[i].pessoas, cpf)

\* C37 as stated -- from empty tables, after any enrollments and deletions
\* through utils_admin, each save of a table succeeding or failing, a
\* national ID is in some tier list of validation.json exactly when it is a
\* key of userData.json.  The two files are saved one after the other and
\* a failure of one leaves the other as written.
CX_C37 ==
    \A cpf \in { CPF_A, CPF_B } :
       Listado(arq_validacao, cpf) <=> TemChave(arq_usuario, cpf)

====
